---- MODULE Spec2Model ----
(***************************************************************************)
(* dgcgears (src/src/dgcgears.c): the swapchain manager, the frame         *)
(* synchronisation loop of main() and the indirect-execution set-up of     *)
(* init_gears(), as a state machine.  The host thread is one process whose *)
(* position is pc; the GPU queue and the presentation engine are the       *)
(* other two, acting through the queue of submitted batches, the queue of  *)
(* present requests, the fences and the semaphores.                        *)
(***************************************************************************)
EXTENDS Integers, Sequences, FiniteSets, TLC

(* ---------------- program constants ---------------- *)
\* #define MAX_CONCURRENT_FRAMES 2
MAX_CONCURRENT_FRAMES == 2
\* ARRAY_SIZE(image_data): struct {...} image_data[5]
IMAGE_DATA_SIZE == 5
\* bool first[4]
FIRST_SIZE == 4
\* width = 300; height = 300 in main()
DefaultWidth == 300
DefaultHeight == 300
\* number of gears: gears[3]
NUM_GEARS == 3
\* sizeof(uint32_t), sizeof(VkDrawIndirectCommand) (4 x uint32_t), and
\* sizeof(indirect_data) = 2 * 4 + 16, all in bytes
SIZEOF_UINT32 == 4
SIZEOF_DRAW_CMD == 16
SIZEOF_INDIRECT_DATA == 24
\* sizeof(struct push_constants): four floats
SIZEOF_PUSH_CONSTANTS == 16
\* angle += 70.0 * dt; if (angle > 3600.0) angle -= 3600.0
DegreesPerSecond == 70
AngleWrap == 3600

(* ---------------- bounds of the model ---------------- *)
\* resize callbacks and suboptimal acquire or present results the
\* environment delivers
MaxEvents == 1
\* calls of recreate_swapchain() when the swapchain manager is driven alone
MaxRecreates == 2
\* key events the user sends, readings the clock advances by, and the
\* seconds between two readings, when the input handling is driven alone
MaxKeys == 2
MaxTicks == 3
TickSeconds == 35
\* most images vkGetSwapchainImagesKHR reports for one swapchain
MaxImageCount == 3

\* window sizes the resize callback may deliver
Sizes == { <<300, 300>>, <<800, 600>> }
\* sample counts the command line may request (VK_SAMPLE_COUNT_1_BIT, _4_BIT)
SampleCounts == { 1, 4 }
\* surface_caps.minImageCount values the surface may report
SurfaceMinImageCounts == { 1, 2, 6 }

VARIABLES
    pc,                 \* position of the host thread in main()
    sample_count, use_shader_object,
    width, height, new_width, new_height,
    min_image_count, image_count,
    swapchain, image_data, frame_data, depth, color_msaa,
    frame_index, image_index, result, first,
    live, bad_destroy,  \* the device's table of live objects
    fence_state, sem_state, present_semaphore,
    img_state,
    queue, presq,       \* submitted batches, queued present requests
    ncreate, events,    \* swapchains created so far, environment events so far
    ies, indirect_map, indirect_size, gears,
    it,                 \* what the current loop iteration has done so far
    rc_log,             \* steps of the current recreate_swapchain() call
    extent,             \* extent each live attachment owner was created with
    surface, sample_support, diagnostic,
    present_suboptimal,
    device, image_format, depth_format, attachments, replaced,
    animate, angle, view_rot, tRot0, clock, keyq, keys,
    fail_at, create_failed,
    indirect_layout, preprocess, ies_info, desidered_present_mode, present_mode,
    recorded_images,
    ubo_ops, memory_type, find_calls,
    exec_log, present_log, begin_log
    \* recorded_images: the image indices a frame was recorded for since the
    \* last create_swapchain() call
    \* memory_type: the memory type create_swapchain() selected for each
    \* attachment; find_calls: the calls of find_memory_type() so far, each
    \* with its arguments, its result and the indices it inspected
    \* ubo_ops: how far the GPU is with each slot's write of the uniform
    \* buffer (w) and with its read of it in the vertex stage (r)

vars == << pc, sample_count, use_shader_object, width, height, new_width,
           new_height, min_image_count, image_count, swapchain, image_data,
           frame_data, depth, color_msaa, frame_index, image_index, result,
           first, live, bad_destroy, fence_state, sem_state,
           present_semaphore, img_state, queue, presq, ncreate,
           events, ies, indirect_map, indirect_size, gears, it, rc_log,
           extent,
           surface, sample_support, diagnostic,
           present_suboptimal,
           device, image_format, depth_format, attachments, replaced,
           animate, angle, view_rot, tRot0, clock, keyq, keys,
           fail_at, create_failed,
           indirect_layout, preprocess, ies_info, desidered_present_mode, present_mode,
           recorded_images,
           ubo_ops,
           memory_type, find_calls,
           exec_log, present_log, begin_log >>

(* ---------------- handles ---------------- *)
\* a Vulkan object handle: its kind, the create_swapchain() call that made it
\* and its index among the objects of that kind
H(kind, gen, idx) == [k |-> kind, g |-> gen, i |-> idx]
VK_NULL_HANDLE == H("null", 0, 0)

Slots == 0 .. (MAX_CONCURRENT_FRAMES - 1)
Range(s) == { s[x] : x \in DOMAIN s }

(* ---------------- swapchain manager ---------------- *)

\* configure_swapchain(): the minimum image count asked of the swapchain
ConfigureMinImageCount(caps_min, caps_max) ==
    LET m1 == IF 2 < caps_min THEN caps_min ELSE 2
    IN  IF caps_max > 0 /\ m1 > caps_max THEN caps_max ELSE m1

\* configure_swapchain(): error("surface_caps.minImageCount is too large")
ConfigureTooLarge(caps_min) == 2 < caps_min /\ caps_min > IMAGE_DATA_SIZE

\* surface_caps.maxImageCount values the surface may report (0: no limit)
SurfaceMaxImageCounts == { 0, 3 }

\* the process ends (exit(), abort(), error()): the work it had queued and
\* the state of its synchronisation objects go with it; no teardown runs, so
\* the table of live objects stays as it was
ProcessEnds(how) ==
    /\ pc' = how
    /\ queue' = << >>
    /\ presq' = << >>
    /\ present_semaphore' = 0
    /\ fence_state' = [ s \in Slots |-> "unsignaled" ]
    /\ sem_state' = [ s \in Slots |-> [ s |-> "unsignaled", img |-> -1 ] ]
    /\ img_state' = << >>
    /\ first' = [ i \in 0 .. (FIRST_SIZE - 1) |-> FALSE ]
    /\ recorded_images' = {}

\* error(): the message goes to the diagnostic stream and the process ends
\* with exit(1)
error(message) ==
    /\ pc' = "fatal"
    /\ diagnostic' = message

\* the sample counts a framebufferColorSampleCounts or
\* framebufferDepthSampleCounts mask of the device may hold
DeviceSampleCounts == { { 1 }, { 1, 4 } }

\* a check that looks at the colour mask only
check_sample_count_support_ColorOnly(sc, color_counts, depth_counts) ==
    sc \in color_counts

\* check_sample_count_support(): the flag bit of the sample count is set in
\* both limits of the physical device
check_sample_count_support(sc, color_counts, depth_counts) ==
    sc \in color_counts /\ sc \in depth_counts

\* main(): if (!check_sample_count_support(sample_count)) error(...)
CheckSampleCount ==
    /\ pc = "check_samples"
    /\ \E color_counts \in DeviceSampleCounts, depth_counts \in DeviceSampleCounts :
          /\ sample_support' = [ checked |-> TRUE,
                                 color |-> sample_count \in color_counts,
                                 depth |-> sample_count \in depth_counts ]
          /\ IF check_sample_count_support(sample_count, color_counts, depth_counts)
             THEN pc' = "create_surface" /\ UNCHANGED diagnostic
             ELSE error("Sample count not supported")
    /\ UNCHANGED << sample_count, memory_type, find_calls,
                    ubo_ops,
                    recorded_images,
                    indirect_layout, preprocess, ies_info, desidered_present_mode, present_mode,
                    fail_at, create_failed,
                    animate, angle, view_rot, tRot0, clock, keyq, keys,
                    device, image_format, depth_format, attachments, replaced,
                    present_suboptimal,
                    surface,
                    use_shader_object, width, height, new_width,
                    new_height, min_image_count, image_count, swapchain,
                    image_data, frame_data, depth, color_msaa, frame_index,
                    image_index, result, first, live, bad_destroy,
                    fence_state, sem_state, present_semaphore, img_state,
                    queue, presq, ncreate, events, ies, indirect_map,
                    indirect_size, gears, it, rc_log, extent, exec_log,
                    present_log, begin_log >>

\* main(): if (!wsi.create_surface(physical_device, instance, &surface))
\* error("Failed to create surface!")
CreateSurface ==
    /\ pc = "create_surface"
    /\ \/ /\ surface' = H("surface", 0, 0)
          /\ pc' = "configure"
          /\ UNCHANGED diagnostic
       \/ /\ error("Failed to create surface!")
          /\ UNCHANGED surface
    /\ UNCHANGED << sample_count, memory_type, find_calls,
                    ubo_ops,
                    recorded_images,
                    indirect_layout, preprocess, ies_info, desidered_present_mode, present_mode,
                    fail_at, create_failed,
                    animate, angle, view_rot, tRot0, clock, keyq, keys,
                    device, image_format, depth_format, attachments, replaced,
                    present_suboptimal,
                    sample_support,
                    use_shader_object, width, height, new_width,
                    new_height, min_image_count, image_count, swapchain,
                    image_data, frame_data, depth, color_msaa, frame_index,
                    image_index, result, first, live, bad_destroy,
                    fence_state, sem_state, present_semaphore, img_state,
                    queue, presq, ncreate, events, ies, indirect_map,
                    indirect_size, gears, it, rc_log, extent, exec_log,
                    present_log, begin_log >>

\* a surface format as vkGetPhysicalDeviceSurfaceFormatsKHR reports it
SurfaceFormat(format, colorSpace) == [ format |-> format, colorSpace |-> colorSpace ]

\* the lists of surface formats a surface may report
SurfaceFormatLists ==
    { << SurfaceFormat("VK_FORMAT_B8G8R8A8_SRGB", "SRGB_NONLINEAR") >>,
      << SurfaceFormat("VK_FORMAT_R8G8B8A8_UNORM", "SRGB_NONLINEAR"),
         SurfaceFormat("VK_FORMAT_B8G8R8A8_SRGB", "SRGB_NONLINEAR") >>,
      << SurfaceFormat("VK_FORMAT_R8G8B8A8_UNORM", "SRGB_NONLINEAR"),
         SurfaceFormat("VK_FORMAT_B8G8R8A8_UNORM", "SRGB_NONLINEAR") >> }

\* the present modes of VkPresentModeKHR the program knows, and the lists
\* vkGetPhysicalDeviceSurfacePresentModesKHR may report: FIFO is in every one
PresentModes ==
    { "VK_PRESENT_MODE_FIFO_KHR", "VK_PRESENT_MODE_MAILBOX_KHR",
      "VK_PRESENT_MODE_IMMEDIATE_KHR" }
PresentModeLists ==
    { << "VK_PRESENT_MODE_FIFO_KHR" >>,
      << "VK_PRESENT_MODE_MAILBOX_KHR", "VK_PRESENT_MODE_FIFO_KHR" >>,
      << "VK_PRESENT_MODE_FIFO_KHR", "VK_PRESENT_MODE_IMMEDIATE_KHR" >>,
      << "VK_PRESENT_MODE_IMMEDIATE_KHR", "VK_PRESENT_MODE_MAILBOX_KHR",
         "VK_PRESENT_MODE_FIFO_KHR" >> }

\* VK_MAX_MEMORY_TYPES, the length of mem_props.memoryTypes, and the width
\* of unsigned
VK_MAX_MEMORY_TYPES == 32
UINT_BITS == 32

\* VkMemoryPropertyFlagBits
MemoryPropertyFlags == { "DEVICE_LOCAL", "HOST_VISIBLE", "LAZILY_ALLOCATED" }

\* what vkGetPhysicalDeviceMemoryProperties stores in mem_props; types is
\* the list of the property flags of the memory types
MemoryProperties(types) ==
    [ memoryTypeCount |-> Len(types),
      memoryTypes |-> [ i \in 0 .. (Len(types) - 1) |-> types[i + 1] ] ]

\* a device's memory types: device-local memory and host-visible memory
ReferenceMemory == MemoryProperties(<< { "DEVICE_LOCAL" }, { "HOST_VISIBLE" } >>)

\* VkMemoryRequirements of an image, memoryTypeBits given as the set of the
\* indices of its bits that are set
MemoryRequirements(bits) == [ memoryTypeBits |-> bits ]

\* what the physical device and the surface answer to configure_swapchain()'s
\* queries: the present modes, the surface formats, and whether
\* VK_FORMAT_D32_SFLOAT and VK_FORMAT_X8_D24_UNORM_PACK32 have
\* VK_FORMAT_FEATURE_DEPTH_STENCIL_ATTACHMENT_BIT with optimal tiling; a
\* Vulkan device has it for at least one of the two; and what it answers to
\* create_swapchain()'s queries: its memory types and the memory
\* requirements of the resolve image and of the depth image
Devices ==
    { d \in [ surface_formats : SurfaceFormatLists,
              present_modes : PresentModeLists,
              d32_depth_attachment : BOOLEAN,
              x8_d24_depth_attachment : BOOLEAN,
              mem_props : { ReferenceMemory },
              msaa_reqs : { MemoryRequirements({ 0 }) },
              depth_reqs : { MemoryRequirements({ 0 }) } ] :
        d.d32_depth_attachment \/ d.x8_d24_depth_attachment }
ReferenceDevice ==
    [ surface_formats |-> << SurfaceFormat("VK_FORMAT_B8G8R8A8_SRGB", "SRGB_NONLINEAR") >>,
      present_modes |-> << "VK_PRESENT_MODE_FIFO_KHR" >>,
      d32_depth_attachment |-> TRUE,
      x8_d24_depth_attachment |-> TRUE,
      mem_props |-> ReferenceMemory,
      msaa_reqs |-> MemoryRequirements({ 0 }),
      depth_reqs |-> MemoryRequirements({ 0 }) ]

\* unsigned values as the sets of the indices of their bits that are set:
\* a <= b
LeqBits(a, b) ==
    \/ a = b
    \/ LET differ == (a \ b) \cup (b \ a)
       IN  (CHOOSE h \in differ : \A l \in differ : l <= h) \in b

\* 1u << i: a shift by the width of unsigned or more is undefined; the builds
\* at hand yield 0 or shift by i modulo the width
ShiftLeftOne(i) ==
    IF i < UINT_BITS THEN { { i } } ELSE { {}, { i % UINT_BITS } }

\* mem_props.memoryTypes[i].propertyFlags: the flags of memory type i; an
\* element the device has not filled in, or one behind the array, holds
\* anything
PropertyFlagsRead(i) ==
    IF i < device.mem_props.memoryTypeCount
    THEN { device.mem_props.memoryTypes[i] }
    ELSE SUBSET MemoryPropertyFlags

\* the loop of find_memory_type() from index i on, with the indices whose
\* memory type it has inspected so far: the results it may return, each with
\* the indices it inspected
RECURSIVE find_memory_type_from(_, _, _, _)
find_memory_type_from(i, reqs, flags, inspected) ==
    UNION {
        IF LeqBits(bit, reqs.memoryTypeBits) /\ i <= device.mem_props.memoryTypeCount
        THEN IF reqs.memoryTypeBits \cap bit # {}
             THEN UNION { IF flags \subseteq propertyFlags
                          THEN { [ ret |-> i, inspected |-> inspected \cup { i } ] }
                          ELSE find_memory_type_from(i + 1, reqs, flags,
                                                     inspected \cup { i }) :
                          propertyFlags \in PropertyFlagsRead(i) }
             ELSE find_memory_type_from(i + 1, reqs, flags, inspected)
        ELSE { [ ret |-> -1, inspected |-> inspected ] } :
        bit \in ShiftLeftOne(i) }

\* find_memory_type(reqs, flags)
find_memory_type(reqs, flags) == find_memory_type_from(0, reqs, flags, {})

\* a call of find_memory_type() as find_calls records it
FindCall(reqs, flags, outcome) ==
    [ reqs |-> reqs, flags |-> flags, ret |-> outcome.ret,
      inspected |-> outcome.inspected ]

\* a selection that asks for device-local memory only
SelectAttachmentMemory_DeviceLocalOnly(reqs) ==
    { [ memory_type |-> o.ret, calls |-> { FindCall(reqs, { "DEVICE_LOCAL" }, o) } ] :
      o \in find_memory_type(reqs, { "DEVICE_LOCAL" }) }

\* create_swapchain(): the memory type for an attachment with these
\* requirements, lazily allocated if find_memory_type() finds one, else
\* device-local; below 0 if it finds neither
SelectAttachmentMemory(reqs) ==
    UNION {
        IF lazy.ret >= 0
        THEN { [ memory_type |-> lazy.ret,
                 calls |-> { FindCall(reqs, { "LAZILY_ALLOCATED" }, lazy) } ] }
        ELSE { [ memory_type |-> local.ret,
                 calls |-> { FindCall(reqs, { "LAZILY_ALLOCATED" }, lazy),
                             FindCall(reqs, { "DEVICE_LOCAL" }, local) } ] :
               local \in find_memory_type(reqs, { "DEVICE_LOCAL" }) } :
        lazy \in find_memory_type(reqs, { "LAZILY_ALLOCATED" }) }

\* create_swapchain(): the selections for the resolve image, if there is
\* one, and then for the depth image; failed names the attachment
\* find_memory_type() found no memory type for
MemorySelections(multisampled) ==
    LET resolve == IF multisampled THEN SelectAttachmentMemory(device.msaa_reqs)
                   ELSE { [ memory_type |-> memory_type.color_msaa, calls |-> {} ] }
    IN  UNION {
            IF multisampled /\ m.memory_type < 0
            THEN { [ failed |-> "color_msaa", color_msaa |-> m.memory_type,
                     depth |-> memory_type.depth, calls |-> m.calls ] }
            ELSE { [ failed |-> IF d.memory_type < 0 THEN "depth" ELSE "none",
                     color_msaa |-> m.memory_type, depth |-> d.memory_type,
                     calls |-> m.calls \cup d.calls ] :
                   d \in SelectAttachmentMemory(device.depth_reqs) } :
            m \in resolve }

\* a selection that takes the requested mode without looking at the list
PickPresentMode_Unchecked(modes, desired) == desired

\* configure_swapchain(): FIFO, unless the requested mode is in the list
PickPresentMode(modes, desired) ==
    IF \E i \in DOMAIN modes : modes[i] = desired
    THEN desired ELSE "VK_PRESENT_MODE_FIFO_KHR"

\* configure_swapchain(): the first reported format, unless the list holds
\* B8G8R8A8_SRGB with the sRGB non-linear colour space
PickSurfaceFormat(formats) ==
    LET preferred == { i \in DOMAIN formats :
                         /\ formats[i].format = "VK_FORMAT_B8G8R8A8_SRGB"
                         /\ formats[i].colorSpace = "SRGB_NONLINEAR" }
    IN  IF preferred = {} THEN formats[1]
        ELSE formats[CHOOSE i \in preferred : \A j \in preferred : i <= j]

\* a selection that takes D32_SFLOAT whatever the device answers
PickDepthFormat_AlwaysD32(d32) == "VK_FORMAT_D32_SFLOAT"

\* configure_swapchain(): D32_SFLOAT if it can be a depth attachment, else
\* X8_D24_UNORM_PACK32
PickDepthFormat(d32) ==
    IF d32 THEN "VK_FORMAT_D32_SFLOAT" ELSE "VK_FORMAT_X8_D24_UNORM_PACK32"

\* configure_swapchain() on a surface whose minImageCount is one of mins; a
\* surface's maxImageCount is 0 (no limit) or at least its minImageCount
ConfigureOn(mins) ==
    /\ pc = "configure"
    /\ \E caps_min \in mins, caps_max \in SurfaceMaxImageCounts :
          /\ caps_max = 0 \/ caps_max >= caps_min
          /\ IF ConfigureTooLarge(caps_min)
             THEN /\ error("surface_caps.minImageCount is too large")
                  /\ UNCHANGED << min_image_count, image_format, depth_format >>
             ELSE /\ pc' = "create"
                  /\ min_image_count' = ConfigureMinImageCount(caps_min, caps_max)
                  /\ image_format' = PickSurfaceFormat(device.surface_formats).format
                  /\ depth_format' = PickDepthFormat(device.d32_depth_attachment)
                  /\ UNCHANGED diagnostic
    /\ present_mode' = PickPresentMode(device.present_modes, desidered_present_mode)
    /\ UNCHANGED << sample_count, memory_type, find_calls,
                    ubo_ops,
                    recorded_images,
                    indirect_layout, preprocess, ies_info, desidered_present_mode,
                    fail_at, create_failed,
                    animate, angle, view_rot, tRot0, clock, keyq, keys,
                    device, attachments, replaced,
                    present_suboptimal,
                    surface, sample_support,
                    use_shader_object, width, height, new_width,
                    new_height, image_count, swapchain, image_data, frame_data,
                    depth, color_msaa, frame_index, image_index, result, first,
                    live, bad_destroy, fence_state, sem_state,
                    present_semaphore, img_state, queue, presq,
                    ncreate, events, ies, indirect_map, indirect_size, gears,
                    it, rc_log, extent, exec_log, present_log,
                    begin_log >>

Configure == ConfigureOn(SurfaceMinImageCounts)

\* the objects one create_swapchain() call creates, n the number of images
\* vkGetSwapchainImagesKHR reports and g the number of the call
SlotObjects(g) ==
    [ s \in Slots |-> [ fence      |-> H("fence", g, s),
                        cmd_buffer |-> H("cmd_buffer", g, s),
                        semaphore  |-> H("semaphore", g, s) ] ]
DepthObjects(g) ==
    [ image |-> H("depth_image", g, 0), view |-> H("depth_view", g, 0),
      memory |-> H("depth_memory", g, 0) ]
MsaaObjects(g) ==
    [ image |-> H("color_msaa", g, 0), view |-> H("color_msaa_view", g, 0),
      memory |-> H("color_msaa_memory", g, 0) ]
NoObjects == [ image |-> VK_NULL_HANDLE, view |-> VK_NULL_HANDLE,
               memory |-> VK_NULL_HANDLE ]
Fields(r) == { r.image, r.view, r.memory }
SlotFields(fd) ==
    UNION { { fd[s].fence, fd[s].cmd_buffer, fd[s].semaphore } : s \in Slots }

\* a create_swapchain() that makes views for as many images as there are
\* frame slots
CreatedViews_PerSlot(g, n) ==
    { H("view", g, i) : i \in 0 .. (MAX_CONCURRENT_FRAMES - 1) }

\* the image views create_swapchain() makes: one per reported image
CreatedViews(g, n) == { H("view", g, i) : i \in 0 .. (n - 1) }

\* a create_swapchain() that makes the resolve image only the first time
Multisampled_FirstOnly == sample_count # 1 /\ ncreate = 0

\* if (sample_count != VK_SAMPLE_COUNT_1_BIT): the multisampled colour image,
\* whose resolve target is the swapchain image, exists
Multisampled == sample_count # 1

\* no attachments have been created
NoAttachments ==
    [ color_format |-> "VK_FORMAT_UNDEFINED", depth_format |-> "VK_FORMAT_UNDEFINED",
      samples |-> 0, resolve |-> FALSE, extent |-> << 0, 0 >>, views |-> 0 ]

\* the creation steps of create_swapchain() whose result it tests, in the
\* order it runs them, and those whose result it drops
CheckedSteps ==
    (IF Multisampled
     THEN << "resolve_image", "resolve_memory", "resolve_view" >> ELSE << >>)
    \o << "depth_image", "depth_memory", "depth_view" >>
UncheckedSteps == { "swapchain", "image_view", "fence", "cmd_buffer", "semaphore" }

\* the object a tested step creates, and the message of its error() call
StepObject(step, g) ==
    CASE step = "resolve_image"  -> MsaaObjects(g).image
      [] step = "resolve_memory" -> MsaaObjects(g).memory
      [] step = "resolve_view"   -> MsaaObjects(g).view
      [] step = "depth_image"    -> DepthObjects(g).image
      [] step = "depth_memory"   -> DepthObjects(g).memory
      [] step = "depth_view"     -> DepthObjects(g).view
StepMessage(step) ==
    CASE step = "resolve_image"  -> "Failed to create resolve image"
      [] step = "resolve_memory" -> "Failed to allocate memory for the resolve image"
      [] step = "resolve_view"   -> "Failed to create the image view for the resolve image"
      [] step = "depth_image"    -> "Failed to create depth image"
      [] step = "depth_memory"   -> "Failed to allocate memory for the depth image"
      [] step = "depth_view"     -> "Failed to create the image view for the depth image"

\* the kind of handle an untested step creates
StepKind(step) ==
    CASE step = "image_view" -> "view"
      [] step = "fence"      -> "fence"
      [] step = "cmd_buffer" -> "cmd_buffer"
      [] step = "semaphore"  -> "semaphore"
      [] OTHER               -> "none"

\* no creation step fails
NoFailure == [ gen |-> 0, step |-> "none" ]

\* the step that fails in the g-th call of create_swapchain(), if any
FailingStep(g) ==
    IF /\ fail_at.gen = g
       /\ fail_at.step \in UncheckedSteps \cup Range(CheckedSteps)
    THEN fail_at.step ELSE "none"

\* where the host is after create_swapchain(): at ret when it returns; gone
\* with exit(1) when a tested step failed or no memory type was found; and when vkCreateSwapchainKHR
\* failed, vkGetSwapchainImagesKHR is called on no swapchain, which is
\* undefined: the process faults, or image_count stays 0 and the assert fails;
\* and when more images are reported than image_data has elements, the loop
\* over them stores past the end of image_data, which is undefined: the
\* process faults or goes on
CreateOutcome(ret) ==
    LET f == FailingStep(ncreate + 1) IN
    IF f \in Range(CheckedSteps) THEN { "fatal" }
    ELSE IF f = "swapchain" THEN { "undefined", "assert_failed" }
    ELSE IF diagnostic' = "find_memory_type failed" THEN { "fatal" }
    ELSE IF image_count' > IMAGE_DATA_SIZE THEN { ret, "undefined" }
    ELSE { ret }

\* a create_swapchain() that makes its fences without the signaled flag
CreatedFenceState_Unsignaled == "unsignaled"

\* vkCreateFence with .flags = VK_FENCE_CREATE_SIGNALED_BIT
CreatedFenceState == "signaled"

\* create_swapchain(), with n the image count the new swapchain reports; a
\* failed call of an untested step leaves its output handle as it was
create_swapchain(n) ==
    LET g == ncreate + 1
        f == FailingStep(g)
        made(h) == h.k # StepKind(f)
        slots == [ s \in Slots |->
                     [ fence      |-> IF f = "fence" THEN frame_data[s].fence
                                      ELSE SlotObjects(g)[s].fence,
                       cmd_buffer |-> IF f = "cmd_buffer" THEN frame_data[s].cmd_buffer
                                      ELSE SlotObjects(g)[s].cmd_buffer,
                       semaphore  |-> IF f = "semaphore" THEN frame_data[s].semaphore
                                      ELSE SlotObjects(g)[s].semaphore ] ]
    IN
    /\ ncreate' = g
    /\ create_failed' = f
    /\ IF f = "swapchain"
       THEN UNCHANGED << image_count, swapchain, image_data, color_msaa, depth,
                         frame_data, extent, attachments, replaced, live,
                         fence_state, sem_state, img_state, diagnostic,
                         memory_type, find_calls >>
       ELSE IF f \in Range(CheckedSteps)
       THEN /\ diagnostic' = StepMessage(f)
            /\ image_count' = n
            /\ swapchain' = H("swapchain", g, 0)
            /\ live' = live \cup { H("swapchain", g, 0) }
                            \cup { StepObject(CheckedSteps[k], g) :
                                     k \in { k \in DOMAIN CheckedSteps :
                                               \E j \in DOMAIN CheckedSteps :
                                                  k < j /\ CheckedSteps[j] = f } }
            /\ UNCHANGED << image_data, color_msaa, depth, frame_data, extent,
                            attachments, replaced, fence_state, sem_state,
                            img_state, memory_type, find_calls >>
       ELSE \E sel \in MemorySelections(Multisampled) :
            /\ memory_type' = [ color_msaa |-> sel.color_msaa, depth |-> sel.depth ]
            /\ find_calls' = find_calls \cup sel.calls
            /\ IF sel.failed # "none"
               THEN /\ diagnostic' = "find_memory_type failed"
                    /\ image_count' = n
                    /\ swapchain' = H("swapchain", g, 0)
                    /\ live' = live \cup { H("swapchain", g, 0) }
                                    \cup (IF sel.failed = "color_msaa"
                                          THEN { MsaaObjects(g).image }
                                          ELSE { DepthObjects(g).image }
                                               \cup (IF Multisampled
                                                     THEN Fields(MsaaObjects(g))
                                                     ELSE {}))
                    /\ UNCHANGED << image_data, color_msaa, depth, frame_data,
                                    extent, attachments, replaced, fence_state,
                                    sem_state, img_state >>
               ELSE
                    /\ UNCHANGED diagnostic
                    /\ image_count' = n
                    /\ swapchain' = H("swapchain", g, 0)
                    /\ image_data' = [ i \in 0 .. (IMAGE_DATA_SIZE - 1) |->
                                         IF i < n
                                         THEN [ image |-> H("image", g, i),
                                                view |-> IF f = "image_view" THEN image_data[i].view
                                                         ELSE H("view", g, i) ]
                                         ELSE image_data[i] ]
                    /\ color_msaa' = IF Multisampled THEN MsaaObjects(g) ELSE color_msaa
                    /\ depth' = DepthObjects(g)
                    /\ frame_data' = slots
                    /\ extent' = [ swapchain  |-> << width, height >>,
                                   depth      |-> << width, height >>,
                                   color_msaa |-> IF Multisampled THEN << width, height >>
                                                  ELSE extent.color_msaa ]
                    /\ attachments' = [ color_format |-> image_format,
                                        depth_format |-> depth_format,
                                        samples      |-> sample_count,
                                        resolve      |-> Multisampled,
                                        extent       |-> << width, height >>,
                                        views        |-> Cardinality({ h \in CreatedViews(g, n) : made(h) }) ]
                    /\ replaced' = attachments
                    /\ live' = live \cup { H("swapchain", g, 0) }
                                    \cup { h \in CreatedViews(g, n) : made(h) }
                                    \cup Fields(DepthObjects(g))
                                    \cup (IF Multisampled THEN Fields(MsaaObjects(g)) ELSE {})
                                    \cup { h \in SlotFields(SlotObjects(g)) : made(h) }
                    /\ fence_state' = [ s \in Slots |-> CreatedFenceState ]
                    /\ sem_state' = [ s \in Slots |-> [ s |-> "unsignaled", img |-> -1 ] ]
                    /\ img_state' = [ i \in 0 .. (n - 1) |-> [ own |-> "engine", ready |-> FALSE ] ]

\* the image counts a swapchain created with minImageCount = min_image_count
\* may report
ReportedImageCounts ==
    min_image_count ..
       (IF min_image_count > MaxImageCount THEN min_image_count ELSE MaxImageCount)

\* main(): create_swapchain() at start-up, the swapchain reporting one of
\* counts images
CreateSwapchainOn(counts) ==
    /\ pc = "create"
    /\ \E n \in counts : create_swapchain(n)
    /\ pc' \in CreateOutcome("init_gears")
    /\ UNCHANGED << sample_count, ubo_ops,
                    recorded_images,
                    indirect_layout, preprocess, ies_info, desidered_present_mode, present_mode,
                    fail_at,
                    animate, angle, view_rot, tRot0, clock, keyq, keys,
                    device, image_format, depth_format,
                    present_suboptimal,
                    surface, sample_support,
                    use_shader_object, width, height, new_width,
                    new_height, min_image_count, frame_index, image_index,
                    result, first, bad_destroy, present_semaphore, queue, presq,
                    events, ies, indirect_map, indirect_size, gears, it, rc_log,
                    exec_log, present_log,
                    begin_log >>

CreateSwapchain == CreateSwapchainOn(ReportedImageCounts)

\* a free_swapchain_data() that leaves the image views alone
FreeList_NoViews ==
    << frame_data[0].cmd_buffer, frame_data[0].fence, frame_data[0].semaphore,
       frame_data[1].cmd_buffer, frame_data[1].fence, frame_data[1].semaphore,
       depth.view, depth.image, depth.memory >>
    \o (IF sample_count # 1
        THEN << color_msaa.view, color_msaa.image, color_msaa.memory >>
        ELSE << >>)

\* free_swapchain_data(): the handles it destroys or frees, in order; those
\* of the image views are the ones it reads from the elements of image_data
FreeList ==
    LET slot(i) == << frame_data[i].cmd_buffer, frame_data[i].fence,
                      frame_data[i].semaphore >>
        slots == slot(0) \o slot(1)
        stored == IF image_count < IMAGE_DATA_SIZE THEN image_count
                  ELSE IMAGE_DATA_SIZE
        views == [ i \in 1 .. stored |-> image_data[i - 1].view ]
    IN  slots \o views \o << depth.view, depth.image, depth.memory >>
        \o (IF Multisampled
            THEN << color_msaa.view, color_msaa.image, color_msaa.memory >>
            ELSE << >>)

\* free_swapchain_data(): what its loop over image_count views reads past the
\* end of image_data, which is undefined: the handles create_swapchain()
\* stored there, or whatever else that memory holds by then
PastTheEndViews ==
    LET past == [ i \in 1 .. (image_count - IMAGE_DATA_SIZE) |->
                    IMAGE_DATA_SIZE + i - 1 ]
    IN  IF image_count <= IMAGE_DATA_SIZE THEN { << >> }
        ELSE { [ i \in DOMAIN past |-> H("view", ncreate, past[i]) ],
               [ i \in DOMAIN past |-> VK_NULL_HANDLE ] }

\* some handle of the list is not live, or is in the list twice
DestroysDeadObject(list) ==
    \/ \E k \in DOMAIN list : list[k] \notin live
    \/ \E j, k \in DOMAIN list : j # k /\ list[j] = list[k]

(* ---------------- recreate_swapchain(), step by step ---------------- *)

\* a recreate that does not wait for the device
DeviceIdle_NoWait == TRUE

\* vkDeviceWaitIdle(device) returns once every queue operation has completed
DeviceIdle == queue = << >> /\ presq = << >>

RcWaitIdle ==
    /\ pc = "rc_idle"
    /\ DeviceIdle
    /\ pc' = "rc_free"
    /\ rc_log' = Append(rc_log, "wait_idle")
    /\ UNCHANGED << sample_count, memory_type, find_calls,
                    ubo_ops,
                    recorded_images,
                    indirect_layout, preprocess, ies_info, desidered_present_mode, present_mode,
                    fail_at, create_failed,
                    animate, angle, view_rot, tRot0, clock, keyq, keys,
                    device, image_format, depth_format, attachments, replaced,
                    present_suboptimal,
                    surface, sample_support, diagnostic,
                    use_shader_object, width, height, new_width,
                    new_height, min_image_count, image_count, swapchain,
                    image_data, frame_data, depth, color_msaa, frame_index,
                    image_index, result, first, live, bad_destroy,
                    fence_state, sem_state, present_semaphore, img_state,
                    queue, presq, ncreate, events, ies,
                    indirect_map, indirect_size, gears, it, extent, exec_log,
                    present_log,
                    begin_log >>

RcFree ==
    /\ pc = "rc_free"
    /\ \E past \in PastTheEndViews :
          /\ live' = live \ Range(FreeList \o past)
          /\ bad_destroy' = (bad_destroy \/ DestroysDeadObject(FreeList \o past))
    /\ pc' \in (IF image_count > IMAGE_DATA_SIZE
                THEN { "rc_destroy", "undefined" } ELSE { "rc_destroy" })
    /\ rc_log' = Append(rc_log, "free_swapchain_data")
    /\ UNCHANGED << sample_count, memory_type, find_calls,
                    ubo_ops,
                    recorded_images,
                    indirect_layout, preprocess, ies_info, desidered_present_mode, present_mode,
                    fail_at, create_failed,
                    animate, angle, view_rot, tRot0, clock, keyq, keys,
                    device, image_format, depth_format, attachments, replaced,
                    present_suboptimal,
                    surface, sample_support, diagnostic,
                    use_shader_object, width, height, new_width,
                    new_height, min_image_count, image_count, swapchain,
                    image_data, frame_data, depth, color_msaa, frame_index,
                    image_index, result, first, fence_state, sem_state,
                    present_semaphore, img_state, queue, presq,
                    ncreate, events, ies, indirect_map, indirect_size, gears,
                    it, extent, exec_log, present_log,
                    begin_log >>

RcDestroySwapchain ==
    /\ pc = "rc_destroy"
    /\ live' = live \ { swapchain }
    /\ bad_destroy' = (bad_destroy \/ swapchain \notin live)
    /\ pc' = "rc_adopt"
    /\ rc_log' = Append(rc_log, "destroy_swapchain")
    /\ UNCHANGED << sample_count, memory_type, find_calls,
                    ubo_ops,
                    recorded_images,
                    indirect_layout, preprocess, ies_info, desidered_present_mode, present_mode,
                    fail_at, create_failed,
                    animate, angle, view_rot, tRot0, clock, keyq, keys,
                    device, image_format, depth_format, attachments, replaced,
                    present_suboptimal,
                    surface, sample_support, diagnostic,
                    use_shader_object, width, height, new_width,
                    new_height, min_image_count, image_count, swapchain,
                    image_data, frame_data, depth, color_msaa, frame_index,
                    image_index, result, first, fence_state, sem_state,
                    present_semaphore, img_state, queue, presq,
                    ncreate, events, ies, indirect_map, indirect_size, gears,
                    it, extent, exec_log, present_log,
                    begin_log >>

\* a recreate that keeps the size the swapchain already has
AdoptedSize_Stale == << width, height >>

\* width = new_width; height = new_height;
AdoptedSize == << new_width, new_height >>

RcAdopt ==
    /\ pc = "rc_adopt"
    /\ width' = AdoptedSize[1]
    /\ height' = AdoptedSize[2]
    /\ pc' = "rc_create"
    /\ rc_log' = Append(rc_log, "adopt")
    /\ UNCHANGED << sample_count, memory_type, find_calls,
                    ubo_ops,
                    recorded_images,
                    indirect_layout, preprocess, ies_info, desidered_present_mode, present_mode,
                    fail_at, create_failed,
                    animate, angle, view_rot, tRot0, clock, keyq, keys,
                    device, image_format, depth_format, attachments, replaced,
                    present_suboptimal,
                    surface, sample_support, diagnostic,
                    use_shader_object, new_width, new_height,
                    min_image_count, image_count, swapchain, image_data,
                    frame_data, depth, color_msaa, frame_index, image_index,
                    result, first, live, bad_destroy, fence_state,
                    sem_state, present_semaphore, img_state, queue,
                    presq, ncreate, events, ies, indirect_map, indirect_size,
                    gears, it, extent, exec_log, present_log,
                    begin_log >>

\* a loop that goes on at the acquire after recreate_swapchain()
AfterRecreate_Acquire == "acquire"

\* where main() goes on after recreate_swapchain(): `continue`
AfterRecreate == "pump"

\* create_swapchain() at the end of recreate_swapchain(), then main()'s
\* memset(first, 0, sizeof(first)); continue;
RcCreateOn(counts) ==
    /\ pc = "rc_create"
    /\ \E n \in counts : create_swapchain(n)
    /\ first' = [ i \in 0 .. (FIRST_SIZE - 1) |-> FALSE ]
    /\ recorded_images' = {}
    /\ pc' \in CreateOutcome(AfterRecreate)
    /\ image_index' = -1
    /\ result' = "none"
    /\ rc_log' = Append(rc_log, "create")
    /\ UNCHANGED << sample_count, ubo_ops,
                   
                    indirect_layout, preprocess, ies_info, desidered_present_mode, present_mode,
                    fail_at,
                    animate, angle, view_rot, tRot0, clock, keyq, keys,
                    device, image_format, depth_format,
                    present_suboptimal,
                    surface, sample_support,
                    use_shader_object, width, height, new_width,
                    new_height, min_image_count, frame_index, bad_destroy, present_semaphore, queue, presq,
                    events, ies, indirect_map, indirect_size, gears, it,
                    exec_log, present_log,
                    begin_log >>

RcCreate == RcCreateOn(ReportedImageCounts)

(* ---------------- the frame loop of main() ---------------- *)

LoopStart(slot) ==
    [ slot |-> slot, resized |-> FALSE, acq |-> "none",
      acq_sem |-> VK_NULL_HANDLE,
      mismatch |-> FALSE, recreates |-> 0, recorded |-> FALSE,
      submitted |-> FALSE, presented |-> FALSE, exit |-> "none" ]

\* an animation step that does not look at the animate flag
AdvanceAngle_Always(a, anim, dt) ==
    LET a1 == a + DegreesPerSecond * dt
    IN  IF a1 > AngleWrap THEN a1 - AngleWrap ELSE a1

\* if (animate) { angle += 70.0 * dt; if (angle > 3600.0) angle -= 3600.0; }
\* with dt in whole seconds
AdvanceAngle(a, anim, dt) ==
    IF anim
    THEN LET a1 == a + DegreesPerSecond * dt
         IN  IF a1 > AngleWrap THEN a1 - AngleWrap ELSE a1
    ELSE a

\* the keys of enum wsi_key the handler names, and one it does not
Keys == { "A", "ESC", "UP", "DOWN", "LEFT", "RIGHT", "OTHER" }
KeyEvent(down, key) == [ down |-> down, key |-> key ]
KeyEvents == { KeyEvent(down, key) : down \in BOOLEAN, key \in Keys }

\* a handler that acts on key releases as on key presses
wsi_key_press_AnyEdge(down, key, st) ==
    CASE key = "ESC"   -> [ st EXCEPT !.exit = TRUE ]
      [] key = "UP"    -> [ st EXCEPT !.view_rot[0] = @ + 5 ]
      [] key = "DOWN"  -> [ st EXCEPT !.view_rot[0] = @ - 5 ]
      [] key = "LEFT"  -> [ st EXCEPT !.view_rot[1] = @ + 5 ]
      [] key = "RIGHT" -> [ st EXCEPT !.view_rot[1] = @ - 5 ]
      [] key = "A"     -> [ st EXCEPT !.animate = ~@ ]
      [] OTHER         -> st

\* wsi_key_press(down, key) on the input state st = animate, view_rot and
\* whether exit(0) was called; the view angles are multiples of five far
\* below 2^24, on which float addition is exact
wsi_key_press(down, key, st) ==
    IF ~down THEN st
    ELSE CASE key = "ESC"   -> [ st EXCEPT !.exit = TRUE ]
           [] key = "UP"    -> [ st EXCEPT !.view_rot[0] = @ + 5 ]
           [] key = "DOWN"  -> [ st EXCEPT !.view_rot[0] = @ - 5 ]
           [] key = "LEFT"  -> [ st EXCEPT !.view_rot[1] = @ + 5 ]
           [] key = "RIGHT" -> [ st EXCEPT !.view_rot[1] = @ - 5 ]
           [] key = "A"     -> [ st EXCEPT !.animate = ~@ ]
           [] OTHER         -> st

\* update_window() hands the pending key events to wsi_key_press() one by
\* one; exit(0) ends the process before the events behind Esc are seen
RECURSIVE DeliverKeys(_, _)
DeliverKeys(q, st) ==
    IF q = << >> \/ st.exit THEN st
    ELSE DeliverKeys(Tail(q), wsi_key_press(Head(q).down, Head(q).key, st))

InputState == [ animate |-> animate, view_rot |-> view_rot, exit |-> FALSE ]

\* a loop that goes on after the exit request
AfterExitSignal_Ignored == "wait"

\* where an exit request leaves the host: break and return 0, or exit(0)
AfterExitSignal == "exited"

\* the ways an exit request reaches the loop: update_window() returns true
\* (break, then return 0), the exit callback (exit(0)), the Esc key (exit(0))
ExitSignals == { "update_window", "wsi_exit", "key_esc" }

\* top of the loop: the animation step, then wsi.update_window() pumps the
\* pending events, which reach the program through wsi_key_press(),
\* wsi_resize() and wsi_exit(); a resize stores the window's live size, an
\* exit request ends the process
Pump ==
    /\ pc = "pump"
    /\ angle' = AdvanceAngle(angle, animate, IF tRot0 < 0 THEN 0 ELSE clock - tRot0)
    /\ tRot0' = clock
    /\ keyq' = << >>
    /\ animate' = DeliverKeys(keyq, InputState).animate
    /\ view_rot' = DeliverKeys(keyq, InputState).view_rot
    /\ \/ /\ ~DeliverKeys(keyq, InputState).exit
          /\ pc' = "wait"
          /\ it' = LoopStart(frame_index)
          /\ UNCHANGED << new_width, new_height, events >>
          /\ UNCHANGED << queue, presq, present_semaphore, fence_state,
                          sem_state, img_state, first, recorded_images >>
       \/ /\ ~DeliverKeys(keyq, InputState).exit
          /\ events < MaxEvents
          /\ \E s \in Sizes \ { << new_width, new_height >> } :
                /\ new_width' = s[1]
                /\ new_height' = s[2]
          /\ events' = events + 1
          /\ it' = [ LoopStart(frame_index) EXCEPT !.resized = TRUE ]
          /\ pc' = "wait"
          /\ UNCHANGED << queue, presq, present_semaphore, fence_state,
                          sem_state, img_state, first, recorded_images >>
       \/ /\ \E sig \in ExitSignals :
                /\ DeliverKeys(keyq, InputState).exit => sig = "key_esc"
                /\ it' = [ LoopStart(frame_index) EXCEPT !.exit = sig ]
          /\ ProcessEnds(AfterExitSignal)
          /\ UNCHANGED << new_width, new_height, events >>
    /\ UNCHANGED << sample_count, memory_type, find_calls,
                    ubo_ops,
                   
                    indirect_layout, preprocess, ies_info, desidered_present_mode, present_mode,
                    fail_at, create_failed,
                    clock, keys,
                    device, image_format, depth_format, attachments, replaced,
                    present_suboptimal,
                    surface, sample_support, diagnostic,
                    use_shader_object, width, height,
                    min_image_count, image_count, swapchain, image_data,
                    frame_data, depth, color_msaa, frame_index, image_index,
                    result, live, bad_destroy, ncreate, ies, indirect_map,
                    indirect_size, gears, rc_log, extent, exec_log,
                    present_log, begin_log >>

\* the step the host is at hands Vulkan an object whose creation failed
UsesFailedObject ==
    \/ pc = "wait" /\ create_failed = "fence"
    \/ pc = "acquire" /\ create_failed = "semaphore"
    \/ pc = "record" /\ create_failed \in { "cmd_buffer", "image_view" }

\* a wait that returns at once
WaitForFences_NoWait(slot) == TRUE

\* vkWaitForFences(device, 1, &frame_data[slot].fence, VK_TRUE, UINT64_MAX)
\* returns once the fence is signaled
WaitForFences(slot) == fence_state[frame_data[slot].fence.i] = "signaled"

\* WAIT_SLOT: vkWaitForFences, then vkResetFences
WaitSlot ==
    /\ pc = "wait"
    /\ ~UsesFailedObject
    /\ WaitForFences(frame_index)
    /\ fence_state' = [ fence_state EXCEPT ![frame_data[frame_index].fence.i] = "unsignaled" ]
    /\ pc' = "acquire"
    /\ UNCHANGED << sample_count, memory_type, find_calls,
                    ubo_ops,
                    recorded_images,
                    indirect_layout, preprocess, ies_info, desidered_present_mode, present_mode,
                    fail_at, create_failed,
                    animate, angle, view_rot, tRot0, clock, keyq, keys,
                    device, image_format, depth_format, attachments, replaced,
                    present_suboptimal,
                    surface, sample_support, diagnostic,
                    use_shader_object, width, height, new_width,
                    new_height, min_image_count, image_count, swapchain,
                    image_data, frame_data, depth, color_msaa, frame_index,
                    image_index, result, first, live, bad_destroy,
                    sem_state, present_semaphore, img_state, queue,
                    presq, ncreate, events, ies, indirect_map, indirect_size,
                    gears, it, rc_log, extent, exec_log, present_log,
                    begin_log >>

\* the images vkAcquireNextImageKHR may hand out: those the presentation
\* engine owns
FreeImages == { i \in DOMAIN img_state : img_state[i].own = "engine" }

AcquireResults == { "VK_SUCCESS", "VK_SUBOPTIMAL_KHR", "VK_ERROR_OUT_OF_DATE_KHR" }

\* the test after vkAcquireNextImageKHR that aborts the iteration
NeedsRecreate(r) ==
    r = "VK_SUBOPTIMAL_KHR" \/ width # new_width \/ height # new_height

\* vkAcquireNextImageKHR(device, swapchain, UINT64_MAX,
\* frame_data[frame_index].semaphore, VK_NULL_HANDLE, &image_index): with a
\* result other than an error it hands out an image the engine owns and
\* leaves the semaphore to be signaled once that image is available
vkAcquireNextImageKHR(r) ==
    IF r = "VK_ERROR_OUT_OF_DATE_KHR"
    THEN UNCHANGED << image_index, img_state, sem_state, events >>
    ELSE /\ \E i \in FreeImages :
              /\ image_index' = i
              /\ img_state' = [ img_state EXCEPT ![i] = [ own |-> "app", ready |-> FALSE ] ]
              /\ sem_state' = [ sem_state EXCEPT ![frame_data[frame_index].semaphore.i] =
                                   [ s |-> "pending", img |-> i ] ]
         /\ IF r = "VK_SUBOPTIMAL_KHR"
            THEN events < MaxEvents /\ events' = events + 1
            ELSE UNCHANGED events

\* ACQUIRE: vkAcquireNextImageKHR with the slot's semaphore, then the
\* recreate test and the two asserts
Acquire ==
    /\ pc = "acquire"
    /\ ~UsesFailedObject
    /\ \E r \in AcquireResults :
        /\ result' = r
        /\ it' = [ it EXCEPT !.acq = r,
                             !.acq_sem = frame_data[frame_index].semaphore,
                             !.mismatch = (width # new_width \/ height # new_height),
                             !.recreates = IF NeedsRecreate(r) THEN @ + 1 ELSE @ ]
        /\ IF NeedsRecreate(r)
           THEN /\ vkAcquireNextImageKHR(r)
                /\ pc' = "rc_idle"
                /\ present_suboptimal' = "no"
                /\ rc_log' = << >>
                /\ UNCHANGED << queue, presq, present_semaphore, fence_state, first,
                                recorded_images >>
           ELSE IF r # "VK_SUCCESS"
           THEN /\ ProcessEnds("assert_failed")
                /\ UNCHANGED << image_index, events, rc_log, present_suboptimal >>
           ELSE /\ vkAcquireNextImageKHR(r)
                /\ pc' = IF image_index' < IMAGE_DATA_SIZE THEN "record"
                         ELSE "assert_failed"
                /\ UNCHANGED << rc_log, queue, presq, present_semaphore,
                                fence_state, first, recorded_images,
                                present_suboptimal >>
    /\ UNCHANGED << sample_count, memory_type, find_calls,
                    ubo_ops,
                   
                    indirect_layout, preprocess, ies_info, desidered_present_mode, present_mode,
                    fail_at, create_failed,
                    animate, angle, view_rot, tRot0, clock, keyq, keys,
                    device, image_format, depth_format, attachments, replaced,
                   
                    surface, sample_support, diagnostic,
                    use_shader_object, width, height, new_width,
                    new_height, min_image_count, image_count, swapchain,
                    image_data, frame_data, depth, color_msaa, frame_index,
                    live, bad_destroy, ncreate, ies, indirect_map,
                    indirect_size, gears, extent, exec_log, present_log,
                    begin_log >>

\* the image the two layout barriers of RECORD name
BarrierImage == image_data[frame_index].image

\* buffer_barrier(): a vkCmdPipelineBarrier with one buffer memory barrier
buffer_barrier(src_flags, dst_flags, src_access, dst_access, buffer) ==
    [ cmd |-> "vkCmdPipelineBarrier", src_flags |-> src_flags,
      dst_flags |-> dst_flags, src_access |-> src_access,
      dst_access |-> dst_access, buffer |-> buffer ]

\* an update whose first barrier waits for no earlier stage
UniformUpdateWaitStage_TopOfPipe == "TOP_OF_PIPE"

\* the source stage of the barrier before the update
UniformUpdateWaitStage == "VERTEX_SHADER"

\* RECORD: the update of the uniform buffer, between its two barriers
UniformUpdate ==
    << buffer_barrier(UniformUpdateWaitStage, "TRANSFER", {}, {}, "ubo_buffer"),
       [ cmd |-> "vkCmdUpdateBuffer", buffer |-> "ubo_buffer" ],
       buffer_barrier("TRANSFER", "VERTEX_SHADER", { "TRANSFER_WRITE" },
                      { "UNIFORM_READ" }, "ubo_buffer") >>

\* RECORD: the commands in the order main() records them, draw_gears() being
\* the state it binds and sets followed by the execute call
CommandStream ==
    << "buffer_barrier", "vkCmdUpdateBuffer", "buffer_barrier",
       "vkCmdPipelineBarrier", "vkCmdBeginRendering",
       "draw_gears.state", "vkCmdPushConstants",
       "CmdExecuteGeneratedCommandsEXT",
       "vkCmdEndRendering", "vkCmdPipelineBarrier" >>

\* an execute call that leaves the last record out
ExecuteSequenceCount_AllButOne == NUM_GEARS - 1

\* .maxSequenceCount = 3 of the execute call
ExecuteSequenceCount == NUM_GEARS

\* draw_gears(): the dynamic state and the execute call it records
draw_gears ==
    [ viewport |-> << width, height >>,
      scissor  |-> << width, height >>,
      execute  |-> [ indirectAddressSize |-> NUM_GEARS * SIZEOF_INDIRECT_DATA,
                     preprocessAddress |-> preprocess.buffer,
                     preprocessSize |-> preprocess.size,
                     maxSequenceCount |-> ExecuteSequenceCount ] ]

\* RECORD: what main() records between vkBeginCommandBuffer and
\* vkEndCommandBuffer; old is the layout the first barrier declares
RecordedCommands(old) ==
    [ stream       |-> CommandStream,
      uniform_update |-> UniformUpdate,
      pre_barrier  |-> [ image |-> BarrierImage, oldLayout |-> old,
                         newLayout |-> "COLOR_ATTACHMENT_OPTIMAL" ],
      renderArea   |-> << width, height >>,
      color_view   |-> IF sample_count # 1 THEN color_msaa.view
                       ELSE image_data[image_index].view,
      resolve_view |-> IF sample_count # 1 THEN image_data[image_index].view
                       ELSE VK_NULL_HANDLE,
      depth_view   |-> depth.view,
      draw         |-> draw_gears,
      post_barrier |-> [ image |-> BarrierImage,
                         oldLayout |-> "COLOR_ATTACHMENT_OPTIMAL",
                         newLayout |-> "PRESENT_SRC_KHR" ] ]

\* a submission that waits on nothing
SubmitWaitSemaphores_None == << >>

\* the semaphores the submission waits on (pWaitSemaphores) and whether it
\* signals the present semaphore (pSignalSemaphores)
SubmitWaitSemaphores == << frame_data[frame_index].semaphore >>
SubmitSignalsPresentSemaphore == TRUE

\* a loop that records every frame into the first slot's command buffer
SlotCommandBuffer_First == frame_data[0].cmd_buffer

\* the command buffer of the current slot
SlotCommandBuffer == frame_data[frame_index].cmd_buffer

\* SUBMIT: the batch vkQueueSubmit hands to the queue, cmds the contents of
\* the slot's command buffer
SubmittedBatch(cmds) ==
    [ cmd_buffer  |-> SlotCommandBuffer,
      cmds        |-> cmds,
      wait        |-> SubmitWaitSemaphores,
      wait_stage  |-> "COLOR_ATTACHMENT_OUTPUT",
      signal      |-> SubmitSignalsPresentSemaphore,
      fence       |-> frame_data[frame_index].fence,
      image_index |-> image_index,
      acq_sem     |-> it.acq_sem ]

\* a present that waits on no semaphore
PresentWaitsSemaphore_None == FALSE

\* vkQueuePresentKHR waits on the present semaphore (waitSemaphoreCount = 1)
PresentWaitsSemaphore == TRUE

\* PRESENT: the request vkQueuePresentKHR queues
PresentRequest ==
    [ image_index |-> image_index, waits |-> PresentWaitsSemaphore,
      swapchain |-> swapchain ]

\* an advance of the ring index that never wraps
NextFrameIndex_NoWrap(fi) == fi + 1

\* the ring index after a presented frame
NextFrameIndex(fi) == IF fi + 1 = MAX_CONCURRENT_FRAMES THEN 0 ELSE fi + 1

\* what vkQueuePresentKHR stores through pResults (.pResults = &result);
\* main() reads neither it nor the call's return value
PresentResults == { "VK_SUCCESS", "VK_SUBOPTIMAL_KHR" }

\* a submission of the command buffer has not completed yet
Pending(cmd_buffer) == \E k \in DOMAIN queue : queue[k].cmd_buffer = cmd_buffer

\* a loop that goes from the present straight to WAIT_SLOT
AfterPresent_Wait == "wait"

\* the end of the loop body: the next iteration starts at the top
AfterPresent == "pump"

\* a frame that stores the records again, with another instance count for
\* the first gear
IndirectRecordsAfterFrame_Rewritten(m) == [ m EXCEPT ![1] = m[1] + 1 ]

\* the indirect records after a frame was recorded: draw_gears() passes
\* indirect_addr to CmdExecuteGeneratedCommandsEXT and the host stores
\* nothing through the buffer, whose mapping init_gears() has released
IndirectRecordsAfterFrame(m) == m

\* a submitted frame's write of the uniform buffer in the transfer stage and
\* its read in the vertex stage: neither has begun
NotStarted == [ w |-> "todo", r |-> "todo" ]

\* RECORD, SUBMIT, PRESENT: vkBeginCommandBuffer .. vkEndCommandBuffer,
\* vkQueueSubmit, vkQueuePresentKHR and the advance of the ring index; none
\* of the calls blocks
RecordSubmitPresent ==
    /\ pc = "record"
    /\ ~UsesFailedObject
    /\ \E f \in (IF image_index \in DOMAIN first THEN { first[image_index] } ELSE BOOLEAN) :
          queue' = Append(queue,
             SubmittedBatch(RecordedCommands(IF ~f THEN "UNDEFINED" ELSE "PRESENT_SRC_KHR")))
    /\ begin_log' = [ any |-> TRUE,
                      pending |-> begin_log.pending
                                  \/ Pending(SlotCommandBuffer) ]
    /\ first' = [ i \in DOMAIN first |-> IF i = image_index THEN TRUE ELSE first[i] ]
    /\ recorded_images' = recorded_images \cup { image_index }
    /\ presq' = Append(presq, PresentRequest)
    /\ \E r \in PresentResults :
          /\ IF r = "VK_SUBOPTIMAL_KHR"
             THEN events < MaxEvents /\ events' = events + 1
             ELSE UNCHANGED events
          /\ present_suboptimal' =
                IF present_suboptimal # "no" THEN "ignored"
                ELSE IF r = "VK_SUBOPTIMAL_KHR" THEN "reported" ELSE "no"
    /\ img_state' = [ img_state EXCEPT ![image_index].own = "queued" ]
    /\ frame_index' = NextFrameIndex(frame_index)
    /\ it' = [ it EXCEPT !.recorded = TRUE, !.submitted = TRUE, !.presented = TRUE ]
    /\ pc' = AfterPresent
    /\ indirect_map' = IndirectRecordsAfterFrame(indirect_map)
    /\ ubo_ops' = [ ubo_ops EXCEPT ![frame_index] = NotStarted ]
    /\ image_index' = -1
    /\ result' = "none"
    /\ UNCHANGED << sample_count, memory_type, find_calls,
                   
                   
                    indirect_layout, preprocess, ies_info, desidered_present_mode, present_mode,
                    fail_at, create_failed,
                    animate, angle, view_rot, tRot0, clock, keyq, keys,
                    device, image_format, depth_format, attachments, replaced,
                   
                    surface, sample_support, diagnostic,
                    use_shader_object, width, height, new_width,
                    new_height, min_image_count, image_count, swapchain,
                    image_data, frame_data, depth, color_msaa, live, bad_destroy, fence_state, sem_state,
                    present_semaphore, ncreate, ies,
                    indirect_size, gears, rc_log, extent, exec_log, present_log >>

(* ---------------- the GPU queue and the presentation engine ---------------- *)

\* the swapchain image a recorded frame renders into: the resolve target
\* when multisampled, else the colour attachment
TargetImage(c) ==
    IF c.resolve_view # VK_NULL_HANDLE THEN c.resolve_view.i ELSE c.color_view.i

\* the presentation engine has finished reading the image an acquire handed
\* out: the image is available and the acquire's semaphore is signaled
ImageReady(s) ==
    /\ sem_state[s].s = "pending"
    /\ sem_state' = [ sem_state EXCEPT ![s].s = "signaled" ]
    /\ img_state' = [ i \in DOMAIN img_state |->
                        IF i = sem_state[s].img
                        THEN [ img_state[i] EXCEPT !.ready = TRUE ]
                        ELSE img_state[i] ]
    /\ UNCHANGED << pc, sample_count, memory_type, find_calls,
                    ubo_ops,
                    recorded_images,
                    indirect_layout, preprocess, ies_info, desidered_present_mode, present_mode,
                    fail_at, create_failed,
                    animate, angle, view_rot, tRot0, clock, keyq, keys,
                    device, image_format, depth_format, attachments, replaced,
                    present_suboptimal,
                    surface, sample_support, diagnostic,
                    use_shader_object, width, height,
                    new_width, new_height, min_image_count, image_count,
                    swapchain, image_data, frame_data, depth, color_msaa,
                    frame_index, image_index, result, first, live,
                    bad_destroy, fence_state, present_semaphore, queue, presq, ncreate, events, ies, indirect_map,
                    indirect_size, gears, it, rc_log, extent, exec_log,
                    present_log,
                    begin_log >>

\* the queue executes the oldest submitted batch once the semaphores it waits
\* on are signaled; on completion the batch's fence and the present
\* semaphore are signaled (batches signal in submission order)
GpuExecute ==
    /\ queue # << >>
    /\ LET b == Head(queue)
           waited == { b.wait[k].i : k \in DOMAIN b.wait }
           t == TargetImage(b.cmds)
       IN
       /\ \A s \in waited : sem_state[s].s = "signaled"
       /\ sem_state' = [ s \in Slots |->
                           IF s \in waited THEN [ s |-> "unsignaled", img |-> -1 ]
                           ELSE sem_state[s] ]
       /\ fence_state' = [ fence_state EXCEPT ![b.fence.i] = "signaled" ]
       /\ present_semaphore' = IF b.signal THEN present_semaphore + 1
                               ELSE present_semaphore
       /\ exec_log' = [ any |-> TRUE,
                        not_ready |-> exec_log.not_ready
                                      \/ (t \in DOMAIN img_state /\ ~img_state[t].ready) ]
    /\ queue' = Tail(queue)
    /\ UNCHANGED << pc, sample_count, memory_type, find_calls,
                    ubo_ops,
                    recorded_images,
                    indirect_layout, preprocess, ies_info, desidered_present_mode, present_mode,
                    fail_at, create_failed,
                    animate, angle, view_rot, tRot0, clock, keyq, keys,
                    device, image_format, depth_format, attachments, replaced,
                    present_suboptimal,
                    surface, sample_support, diagnostic,
                    use_shader_object, width, height,
                    new_width, new_height, min_image_count, image_count,
                    swapchain, image_data, frame_data, depth, color_msaa,
                    frame_index, image_index, result, first, live,
                    bad_destroy, img_state, presq, ncreate, events, ies,
                    indirect_map, indirect_size, gears, it, rc_log, extent,
                    present_log,
                    begin_log >>

\* the presentation engine performs the oldest queued present once the
\* semaphore it waits on is signaled, and takes the image back
PresentExec ==
    /\ presq # << >>
    /\ LET p == Head(presq) IN
       /\ p.waits => present_semaphore > 0
       /\ present_semaphore' = IF p.waits THEN present_semaphore - 1
                               ELSE present_semaphore
       /\ img_state' = [ i \in DOMAIN img_state |->
                           IF i = p.image_index THEN [ own |-> "engine", ready |-> FALSE ]
                           ELSE img_state[i] ]
       /\ present_log' =
             [ any |-> TRUE,
               early |-> present_log.early
                         \/ \E k \in DOMAIN queue : queue[k].image_index = p.image_index ]
    /\ presq' = Tail(presq)
    /\ UNCHANGED << pc, sample_count, memory_type, find_calls,
                    ubo_ops,
                    recorded_images,
                    indirect_layout, preprocess, ies_info, desidered_present_mode, present_mode,
                    fail_at, create_failed,
                    animate, angle, view_rot, tRot0, clock, keyq, keys,
                    device, image_format, depth_format, attachments, replaced,
                    present_suboptimal,
                    surface, sample_support, diagnostic,
                    use_shader_object, width, height,
                    new_width, new_height, min_image_count, image_count,
                    swapchain, image_data, frame_data, depth, color_msaa,
                    frame_index, image_index, result, first, live,
                    bad_destroy, fence_state, sem_state, queue,
                    ncreate, events, ies, indirect_map, indirect_size, gears,
                    it, rc_log, extent, exec_log,
                    begin_log >>

(* ---------------- init_gears() ---------------- *)

\* create_gear(): the number of vertices it emits for a gear with the given
\* number of teeth; every strip but the first starts with two restart
\* vertices (START_STRIP)
create_gear(teeth) ==
    LET front_face  == (teeth + 1) * 2 + teeth * 2
        front_teeth == teeth * (2 + 4)
        back_face   == 2 + (teeth + 1) * 2 + teeth * 2
        back_teeth  == teeth * (2 + 4)
        outward     == teeth * 4 * (2 + 4)
        cylinder    == 2 + (teeth + 1) * 2
    IN  front_face + front_teeth + back_face + back_teeth + outward + cylinder

\* #define MAX_VERTS 10000: the vertices the array the gears are generated
\* into has room for
MAX_VERTS == 10000

\* teeth of the three gears
GearTeeth == << 20, 10, 10 >>

GearDescriptors ==
    LET c(i) == create_gear(GearTeeth[i + 1])
    IN  [ i \in 0 .. (NUM_GEARS - 1) |->
            [ first_vertex |-> IF i = 0 THEN 0
                               ELSE IF i = 1 THEN c(0) ELSE c(0) + c(1),
              vertex_count |-> c(i) ] ]

Variant(kind, obj) == [ kind |-> kind, obj |-> obj ]
EmptySlot == Variant("empty", 0)

\* CreateIndirectExecutionSetEXT: the set with its initial variants
CreateExecutionSet(shader_object) ==
    IF shader_object
    THEN [ type |-> "SHADER_OBJECTS", capacity |-> 4,
           slots |-> [ k \in 0 .. 3 |->
                         IF k = 0 THEN Variant("vs", 0)
                         ELSE IF k = 1 THEN Variant("fs", 0) ELSE EmptySlot ] ]
    ELSE [ type |-> "PIPELINES", capacity |-> 3,
           slots |-> [ k \in 0 .. 2 |->
                         IF k = 0 THEN Variant("pipeline", 0) ELSE EmptySlot ] ]

\* an update that writes both remaining variants to the same slot
ExecutionSetWrites_SameSlot(shader_object) ==
    IF shader_object
    THEN << [ index |-> 2, v |-> Variant("vs", 1) ],
            [ index |-> 2, v |-> Variant("vs", 2) ] >>
    ELSE << [ index |-> 1, v |-> Variant("pipeline", 1) ],
            [ index |-> 1, v |-> Variant("pipeline", 2) ] >>

\* the writes of UpdateIndirectExecutionSetShaderEXT / ...PipelineEXT
ExecutionSetWrites(shader_object) ==
    IF shader_object
    THEN << [ index |-> 2, v |-> Variant("vs", 1) ],
            [ index |-> 3, v |-> Variant("vs", 2) ] >>
    ELSE << [ index |-> 1, v |-> Variant("pipeline", 1) ],
            [ index |-> 2, v |-> Variant("pipeline", 2) ] >>

UpdateExecutionSet(set, writes) ==
    [ set EXCEPT !.slots =
        [ k \in DOMAIN set.slots |->
            IF \E w \in DOMAIN writes : writes[w].index = k
            THEN writes[CHOOSE w \in DOMAIN writes : writes[w].index = k].v
            ELSE set.slots[k] ] ]

\* the resource-binding layout a creation call declares: the descriptor-set
\* layouts and the push-constant ranges
PushConstantRange ==
    [ offset |-> 0, size |-> SIZEOF_PUSH_CONSTANTS, stageFlags |-> "VERTEX" ]
BindingLayout(set_layouts, ranges) ==
    [ pSetLayouts |-> set_layouts, pPushConstantRanges |-> ranges ]

\* vkCreatePipelineLayout: pipeline_layout
pipeline_layout == BindingLayout(<< "set_layout" >>, << PushConstantRange >>)

\* what the creation call of a variant declares: each VkShaderCreateInfoEXT
\* of CreateShadersEXT (the three vertex shaders and the fragment shader),
\* and .layout of each vkCreateGraphicsPipelines
DeclaredLayout(v) ==
    CASE v.kind = "vs"       -> BindingLayout(<< "set_layout" >>, << PushConstantRange >>)
      [] v.kind = "fs"       -> BindingLayout(<< "set_layout" >>, << PushConstantRange >>)
      [] v.kind = "pipeline" -> pipeline_layout

\* VkIndirectExecutionSetCreateInfoEXT: for shader objects pSetLayoutInfos
\* holds one list of set layouts per initial shader (vs_shaders[0], then
\* fs_shader) and the push-constant ranges are given once; for pipelines
\* the info names the initial pipeline only, whose layout the set takes
ExecutionSetCreateInfo(shader_object) ==
    IF shader_object
    THEN [ initial |-> << Variant("vs", 0), Variant("fs", 0) >>,
           pSetLayoutInfos |-> << << "set_layout" >>, << >> >>,
           pPushConstantRanges |-> << PushConstantRange >> ]
    ELSE [ initial |-> << Variant("pipeline", 0) >>,
           pSetLayoutInfos |-> << pipeline_layout.pSetLayouts >>,
           pPushConstantRanges |-> pipeline_layout.pPushConstantRanges ]

\* CreateIndirectCommandsLayoutEXT: the stride of one record and the two
\* tokens, the execution-set token at offset 0 and the draw token behind the
\* two ies words
IndirectCommandsLayout(shader_object) ==
    [ indirectStride |-> SIZEOF_INDIRECT_DATA,
      pipelineLayout |-> pipeline_layout,
      tokens |-> << [ type |-> "EXECUTION_SET", offset |-> 0,
                      set_type |-> IF shader_object THEN "SHADER_OBJECTS"
                                   ELSE "PIPELINES" ],
                    [ type |-> "DRAW", offset |-> 2 * SIZEOF_UINT32 ] >> ]

\* the preprocess buffer: created, given memory and bound once, sized by
\* GetGeneratedCommandsMemoryRequirementsEXT for maxSequenceCount = 3
NoPreprocess == [ buffer |-> VK_NULL_HANDLE, memory |-> VK_NULL_HANDLE,
                  maxSequenceCount |-> 0, size |-> [ sequences |-> 0 ] ]

\* GetGeneratedCommandsMemoryRequirementsEXT: the size the device asks for
\* to preprocess up to n sequences
GeneratedCommandsMemorySize(n) == [ sequences |-> n ]

PreprocessBinding ==
    [ buffer |-> H("preprocess_buffer", 0, 0),
      memory |-> H("preprocess_mem", 0, 0),
      maxSequenceCount |-> NUM_GEARS,
      size |-> GeneratedCommandsMemorySize(NUM_GEARS) ]

\* vertex shader indices that are not offset past the fragment shader
shader_idx_NoOffset == << 0, 1, 2 >>

\* int pipeline_idx[] = {0, 1, 2}; int shader_idx[] = {0, 2, 3};
pipeline_idx == << 0, 1, 2 >>
shader_idx == << 0, 2, 3 >>

\* the six 32-bit words of indirect_map[i]: ies[0], ies[1], then the
\* VkDrawIndirectCommand (vertexCount, instanceCount, firstVertex,
\* firstInstance)
IndirectRecordWords(i, shader_object, g) ==
    << IF shader_object THEN shader_idx[i + 1] ELSE pipeline_idx[i + 1],
       1,
       g[i].vertex_count,
       1,
       g[i].first_vertex,
       0 >>

WordsPerRecord == SIZEOF_INDIRECT_DATA \div SIZEOF_UINT32

\* size_t indirect_size = 3 * (sizeof(uint32_t) + sizeof(VkDrawIndirectCommand)):
\* the size of the indirect buffer, of its memory and of the mapping
IndirectSize == NUM_GEARS * (SIZEOF_UINT32 + SIZEOF_DRAW_CMD)

\* the words the loop over gears[] stores through indirect_map
WrittenWords ==
    [ w \in 0 .. (NUM_GEARS * WordsPerRecord - 1) |->
        IndirectRecordWords(w \div WordsPerRecord, use_shader_object,
                            GearDescriptors)[(w % WordsPerRecord) + 1] ]

\* init_gears(): the execution set, the gears and the indirect records; a
\* store past the end of the mapping is undefined: it lands in the memory
\* behind the mapping or the process faults
InitGears ==
    /\ pc = "init_gears"
    /\ ies' = UpdateExecutionSet(CreateExecutionSet(use_shader_object),
                                 ExecutionSetWrites(use_shader_object))
    /\ ies_info' = ExecutionSetCreateInfo(use_shader_object)
    /\ indirect_layout' = IndirectCommandsLayout(use_shader_object)
    /\ preprocess' = PreprocessBinding
    /\ gears' = GearDescriptors
    /\ indirect_size' = IndirectSize
    /\ \/ /\ indirect_map' = WrittenWords
          /\ pc' = "pump"
       \/ /\ NUM_GEARS * SIZEOF_INDIRECT_DATA > IndirectSize
          /\ indirect_map' = [ w \in 0 .. (IndirectSize \div SIZEOF_UINT32 - 1) |->
                                  WrittenWords[w] ]
          /\ pc' = "segfault"
    /\ UNCHANGED << sample_count, memory_type, find_calls,
                    ubo_ops,
                    recorded_images,
                    desidered_present_mode, present_mode,
                    fail_at, create_failed,
                    animate, angle, view_rot, tRot0, clock, keyq, keys,
                    device, image_format, depth_format, attachments, replaced,
                    present_suboptimal,
                    surface, sample_support, diagnostic,
                    use_shader_object, width, height, new_width,
                    new_height, min_image_count, image_count, swapchain,
                    image_data, frame_data, depth, color_msaa, frame_index,
                    image_index, result, first, live, bad_destroy,
                    fence_state, sem_state, present_semaphore, img_state,
                    queue, presq, ncreate, events, it, rc_log,
                    extent, exec_log, present_log, begin_log >>

(* ---------------- the specification ---------------- *)

\* the state of the program as main() starts
InitProgram ==
    /\ pc = "check_samples"
    /\ create_failed = "none"
    /\ animate = TRUE
    /\ angle = 0
    /\ view_rot = [ i \in 0 .. 1 |-> IF i = 0 THEN 20 ELSE 30 ]
    /\ tRot0 = -1
    /\ clock = 0
    /\ keyq = << >>
    /\ keys = 0
    /\ image_format = "VK_FORMAT_UNDEFINED"
    /\ depth_format = "VK_FORMAT_UNDEFINED"
    /\ attachments = NoAttachments
    /\ replaced = NoAttachments
    /\ surface = VK_NULL_HANDLE
    /\ present_suboptimal = "no"
    /\ sample_support = [ checked |-> FALSE, color |-> FALSE, depth |-> FALSE ]
    /\ diagnostic = ""
    /\ sample_count \in SampleCounts
    /\ use_shader_object \in BOOLEAN
    /\ width = DefaultWidth /\ height = DefaultHeight
    /\ new_width = DefaultWidth /\ new_height = DefaultHeight
    /\ min_image_count = 2
    /\ image_count = 0
    /\ swapchain = VK_NULL_HANDLE
    /\ image_data = [ i \in 0 .. (IMAGE_DATA_SIZE - 1) |->
                        [ image |-> VK_NULL_HANDLE, view |-> VK_NULL_HANDLE ] ]
    /\ frame_data = [ s \in Slots |-> [ fence |-> VK_NULL_HANDLE,
                                        cmd_buffer |-> VK_NULL_HANDLE,
                                        semaphore |-> VK_NULL_HANDLE ] ]
    /\ depth = NoObjects
    /\ color_msaa = NoObjects
    /\ extent = [ swapchain |-> << 0, 0 >>, depth |-> << 0, 0 >>,
                  color_msaa |-> << 0, 0 >> ]
    /\ frame_index = 0
    /\ image_index = -1
    /\ result = "none"
    /\ first = [ i \in 0 .. (FIRST_SIZE - 1) |-> FALSE ]
    /\ recorded_images = {}
    /\ ubo_ops = [ s \in Slots |-> NotStarted ]
    /\ memory_type = [ color_msaa |-> -1, depth |-> -1 ]
    /\ find_calls = {}
    /\ live = {}
    /\ bad_destroy = FALSE
    /\ fence_state = [ s \in Slots |-> "unsignaled" ]
    /\ sem_state = [ s \in Slots |-> [ s |-> "unsignaled", img |-> -1 ] ]
    /\ present_semaphore = 0
    /\ img_state = << >>
    /\ queue = << >>
    /\ presq = << >>
    /\ ncreate = 0
    /\ events = 0
    /\ ies = [ type |-> "none", capacity |-> 0, slots |-> << >> ]
    /\ indirect_map = << >>
    /\ indirect_size = 0
    /\ ies_info = [ initial |-> << >>, pSetLayoutInfos |-> << >>,
                    pPushConstantRanges |-> << >> ]
    /\ indirect_layout = [ indirectStride |-> 0, pipelineLayout |-> BindingLayout(<< >>, << >>),
                           tokens |-> << >> ]
    /\ preprocess = NoPreprocess
    /\ present_mode = "VK_PRESENT_MODE_FIFO_KHR"
    /\ gears = << >>
    /\ it = LoopStart(0)
    /\ rc_log = << >>
    /\ exec_log = [ any |-> FALSE, not_ready |-> FALSE ]
    /\ present_log = [ any |-> FALSE, early |-> FALSE ]
    /\ begin_log = [ any |-> FALSE, pending |-> FALSE ]

\* main() starts on the reference device
Init ==
    /\ InitProgram
    /\ device = ReferenceDevice
    /\ desidered_present_mode = "VK_PRESENT_MODE_FIFO_KHR"
    /\ fail_at = NoFailure

Next ==
    \/ CheckSampleCount
    \/ CreateSurface
    \/ Configure
    \/ CreateSwapchain
    \/ InitGears
    \/ Pump
    \/ WaitSlot
    \/ Acquire
    \/ RecordSubmitPresent
    \/ RcWaitIdle
    \/ RcFree
    \/ RcDestroySwapchain
    \/ RcAdopt
    \/ RcCreate
    \/ \E s \in Slots : ImageReady(s)
    \/ GpuExecute
    \/ PresentExec

Spec == Init /\ [][Next]_vars

(* ---------------- the swapchain manager driven alone ---------------- *)

\* main() starts on any of the devices
InitRecreate ==
    /\ InitProgram
    /\ device \in Devices
    /\ desidered_present_mode \in PresentModes
    /\ fail_at = NoFailure

\* the window takes a size and recreate_swapchain() is called, as main()
\* does after an acquire; no frame is in flight
CallRecreate ==
    /\ pc = "pump"
    /\ ncreate <= MaxRecreates
    /\ \E s \in Sizes :
          /\ new_width' = s[1]
          /\ new_height' = s[2]
    /\ pc' = "rc_idle"
    /\ rc_log' = << >>
    /\ UNCHANGED << sample_count, memory_type, find_calls,
                    ubo_ops,
                    recorded_images,
                    indirect_layout, preprocess, ies_info, desidered_present_mode, present_mode,
                    fail_at, create_failed,
                    animate, angle, view_rot, tRot0, clock, keyq, keys,
                    device, image_format, depth_format,
                    attachments, replaced, present_suboptimal, surface,
                    sample_support, diagnostic, use_shader_object, width,
                    height, min_image_count, image_count, swapchain,
                    image_data, frame_data, depth, color_msaa, frame_index,
                    image_index, result, first, live, bad_destroy,
                    fence_state, sem_state, present_semaphore, img_state,
                    queue, presq, ncreate, events, ies, indirect_map,
                    indirect_size, gears, it, extent, exec_log, present_log,
                    begin_log >>

NextRecreate ==
    \/ CheckSampleCount
    \/ CreateSurface
    \/ Configure
    \/ CreateSwapchain
    \/ InitGears
    \/ CallRecreate
    \/ RcWaitIdle
    \/ RcFree
    \/ RcDestroySwapchain
    \/ RcAdopt
    \/ RcCreate

SpecRecreate == InitRecreate /\ [][NextRecreate]_vars

(* ---------------- the input handling driven alone ---------------- *)

\* main() starts single-sampled in pipeline mode
InitKeys == Init /\ sample_count = 1 /\ ~use_shader_object

\* the start-up of main() up to the loop; it writes none of animate, angle,
\* view_rot and tRot0 and pumps no events
EnterLoop ==
    /\ pc = "check_samples"
    /\ pc' = "pump"
    /\ UNCHANGED << sample_count, memory_type, find_calls,
                    ubo_ops,
                    recorded_images,
                    indirect_layout, preprocess, ies_info, desidered_present_mode, present_mode,
                    fail_at, create_failed,
                    animate, angle, view_rot, tRot0, clock,
                    keyq, keys,
                    device, image_format, depth_format, attachments, replaced,
                    present_suboptimal, surface, sample_support, diagnostic,
                    use_shader_object, width, height, new_width, new_height,
                    min_image_count, image_count, swapchain, image_data,
                    frame_data, depth, color_msaa, frame_index, image_index,
                    result, first, live, bad_destroy, fence_state, sem_state,
                    present_semaphore, img_state, queue, presq, ncreate,
                    events, ies, indirect_map, indirect_size, gears, it,
                    rc_log, extent, exec_log, present_log, begin_log >>

\* the loop is at update_window(): events that arrive during the rest of
\* the iteration wait for it
InLoop == pc = "pump"

\* the user sends a key event; it waits for the next update_window()
PostKey ==
    /\ InLoop
    /\ keys < MaxKeys
    /\ \E e \in KeyEvents : keyq' = Append(keyq, e)
    /\ keys' = keys + 1
    /\ UNCHANGED << pc, sample_count, memory_type, find_calls,
                    ubo_ops,
                    recorded_images,
                    indirect_layout, preprocess, ies_info, desidered_present_mode, present_mode,
                    fail_at, create_failed,
                    animate, angle, view_rot, tRot0, clock,
                    device, image_format, depth_format, attachments, replaced,
                    present_suboptimal, surface, sample_support, diagnostic,
                    use_shader_object, width, height, new_width, new_height,
                    min_image_count, image_count, swapchain, image_data,
                    frame_data, depth, color_msaa, frame_index, image_index,
                    result, first, live, bad_destroy, fence_state, sem_state,
                    present_semaphore, img_state, queue, presq, ncreate,
                    events, ies, indirect_map, indirect_size, gears, it,
                    rc_log, extent, exec_log, present_log, begin_log >>

\* time passes: current_time() reads TickSeconds more
Tick ==
    /\ InLoop
    /\ clock < MaxTicks * TickSeconds
    /\ clock' = clock + TickSeconds
    /\ UNCHANGED << pc, sample_count, memory_type, find_calls,
                    ubo_ops,
                    recorded_images,
                    indirect_layout, preprocess, ies_info, desidered_present_mode, present_mode,
                    fail_at, create_failed,
                    animate, angle, view_rot, tRot0, keyq,
                    keys,
                    device, image_format, depth_format, attachments, replaced,
                    present_suboptimal, surface, sample_support, diagnostic,
                    use_shader_object, width, height, new_width, new_height,
                    min_image_count, image_count, swapchain, image_data,
                    frame_data, depth, color_msaa, frame_index, image_index,
                    result, first, live, bad_destroy, fence_state, sem_state,
                    present_semaphore, img_state, queue, presq, ncreate,
                    events, ies, indirect_map, indirect_size, gears, it,
                    rc_log, extent, exec_log, present_log, begin_log >>

\* the rest of the iteration, from WAIT_SLOT to the end of the loop body:
\* it writes none of animate, angle, view_rot and tRot0 and pumps no events
RestOfIteration ==
    /\ pc = "wait"
    /\ pc' = "pump"
    /\ UNCHANGED << sample_count, memory_type, find_calls,
                    ubo_ops,
                    recorded_images,
                    indirect_layout, preprocess, ies_info, desidered_present_mode, present_mode,
                    fail_at, create_failed,
                    animate, angle, view_rot, tRot0, clock,
                    keyq, keys,
                    device, image_format, depth_format, attachments, replaced,
                    present_suboptimal, surface, sample_support, diagnostic,
                    use_shader_object, width, height, new_width, new_height,
                    min_image_count, image_count, swapchain, image_data,
                    frame_data, depth, color_msaa, frame_index, image_index,
                    result, first, live, bad_destroy, fence_state, sem_state,
                    present_semaphore, img_state, queue, presq, ncreate,
                    events, ies, indirect_map, indirect_size, gears, it,
                    rc_log, extent, exec_log, present_log, begin_log >>

NextKeys ==
    \/ EnterLoop
    \/ Pump
    \/ RestOfIteration
    \/ PostKey
    \/ Tick

SpecKeys == InitKeys /\ [][NextKeys]_vars

(* ---------------- properties ---------------- *)

\* init_gears() has returned
AfterInit == pc \notin { "check_samples", "create_surface", "configure", "create", "init_gears", "fatal", "segfault" }
InRecreate == pc \in { "rc_idle", "rc_free", "rc_destroy", "rc_adopt", "rc_create" }
Batches == { queue[k] : k \in DOMAIN queue }

\* the submitted command buffers whose fence has not signaled
InFlight == { k \in DOMAIN queue : fence_state[queue[k].fence.i] # "signaled" }

\* C1: in every state at most MAX_CONCURRENT_FRAMES command buffers are in
\* flight, that is submitted with their fence not yet signaled, whatever the
\* interleaving of host iterations and GPU completions.
C1_InFlightBounded ==
    /\ Cardinality(InFlight) <= MAX_CONCURRENT_FRAMES
    /\ Len(queue) <= MAX_CONCURRENT_FRAMES

\* both slots have a frame in flight
C1_BothSlotsInFlight == Cardinality(InFlight) = MAX_CONCURRENT_FRAMES

\* C2: a slot's command buffer is never begun while a submission of that
\* command buffer has not completed, also after aborted iterations and
\* recreations; so no two pending batches name the same command buffer.
C2_NoBeginWhilePending ==
    /\ ~begin_log.pending
    /\ \A j, k \in DOMAIN queue : j # k => queue[j].cmd_buffer # queue[k].cmd_buffer

\* a command buffer of a recreated swapchain was begun while the other
\* slot's frame was still pending
C2_BegunAfterRecreate ==
    /\ begin_log.any
    /\ ncreate >= 2
    /\ Len(queue) = MAX_CONCURRENT_FRAMES

\* C3: no image is presented while the command buffer that renders the frame
\* into it is still pending, also when two frames in flight share the one
\* present semaphore.
C3_PresentAfterRender == ~present_log.early

\* a frame was presented, and two more frames are submitted and queued for
\* presentation behind the one present semaphore
C3_TwoFramesShareSemaphore ==
    /\ present_log.any
    /\ Len(queue) = 2
    /\ Len(presq) >= 2
    /\ \A k \in DOMAIN presq : presq[k].waits

\* C4: no batch executes before the image it renders into is available, and
\* every submission waits, at the colour-attachment-output stage, on exactly
\* the semaphore of its slot that the iteration's acquire was given.
C4_RenderAfterAcquire ==
    /\ ~exec_log.not_ready
    /\ \A b \in Batches :
          /\ b.wait = << b.acq_sem >>
          /\ b.wait_stage = "COLOR_ATTACHMENT_OUTPUT"
          /\ b.acq_sem = frame_data[b.acq_sem.i].semaphore

\* a batch has executed, and the oldest pending batch is held back by the
\* semaphore of its acquire
C4_BatchHeldBack ==
    /\ exec_log.any
    /\ queue # << >>
    /\ sem_state[Head(queue).acq_sem.i].s = "pending"

\* C5: an iteration whose acquire is suboptimal, or finds the window's size
\* different from the swapchain's, records, submits and presents nothing,
\* starts recreate_swapchain() once, and the loop goes on at the event pump
\* with the same ring slot.
C5_AbortedIteration ==
    /\ (it.acq = "VK_SUBOPTIMAL_KHR" \/ it.mismatch) => it.recreates = 1
    /\ it.recreates >= 1 =>
          /\ it.recreates = 1
          /\ ~it.recorded /\ ~it.submitted /\ ~it.presented
          /\ frame_index = it.slot
          /\ InRecreate \/ pc = "pump"
    /\ InRecreate => it.recreates = 1

\* the loop is back at the event pump after a suboptimal acquire
C5_RestartedAfterSuboptimal ==
    /\ pc = "pump"
    /\ it.recreates = 1
    /\ it.acq = "VK_SUBOPTIMAL_KHR"
    /\ rc_log = << "wait_idle", "free_swapchain_data", "destroy_swapchain",
                   "adopt", "create" >>

\* C6: a resize to a different size makes the next acquire start one
\* recreate; no recreate starts without a resize or a suboptimal result in
\* its iteration; after it the sizes agree, and every frame recorded uses a
\* render area, viewport and scissor equal to the size of the swapchain and
\* of the depth and resolve attachments.
C6_ResizeRecreatesOnce ==
    /\ it.resized /\ it.acq # "none" => it.recreates = 1
    /\ it.recreates >= 1 => (it.resized \/ it.acq = "VK_SUBOPTIMAL_KHR")
    /\ (pc \in { "pump", "record" } /\ ncreate >= 1) =>
          /\ << width, height >> = << new_width, new_height >>
          /\ extent.swapchain = << width, height >>
    /\ \A b \in Batches :
          /\ b.cmds.renderArea = extent.swapchain
          /\ b.cmds.draw.viewport = extent.swapchain
          /\ b.cmds.draw.scissor = extent.swapchain
          /\ extent.depth = extent.swapchain
          /\ sample_count # 1 => extent.color_msaa = extent.swapchain
          /\ extent.swapchain = << width, height >>

\* a frame recorded after a resize is pending
C6_FrameAfterResize ==
    /\ ncreate = 2
    /\ queue # << >>
    /\ << width, height >> # << DefaultWidth, DefaultHeight >>
    /\ Head(queue).cmds.renderArea = << new_width, new_height >>

\* the live objects of a kind
LiveOfKind(kind) == { h \in live : h.k = kind }

RecreateOrder ==
    << "wait_idle", "free_swapchain_data", "destroy_swapchain", "adopt", "create" >>

\* C8: recreate_swapchain() destroys nothing while a batch or a present is
\* pending, and its steps run in the order wait-idle, free the attachments
\* and slot objects, destroy the old swapchain, adopt the new size, create.
C8_RecreateOrder ==
    /\ pc \in { "rc_free", "rc_destroy", "rc_adopt", "rc_create" } =>
          queue = << >> /\ presq = << >>
    /\ Len(rc_log) <= Len(RecreateOrder)
    /\ \A k \in DOMAIN rc_log : rc_log[k] = RecreateOrder[k]
    /\ pc = "rc_free" => Len(rc_log) = 1
    /\ pc = "rc_destroy" => Len(rc_log) = 2 /\ swapchain \in live
    /\ pc = "rc_adopt" => Len(rc_log) = 3 /\ << width, height >> = extent.swapchain
    /\ pc = "rc_create" => Len(rc_log) = 4 /\ << width, height >> = << new_width, new_height >>

\* the old swapchain is destroyed after frames were rendered and presented
C8_DestroyedAfterFrames ==
    /\ pc = "rc_adopt"
    /\ Len(rc_log) = 3
    /\ exec_log.any /\ present_log.any
    /\ swapchain \notin live

\* C9: the image both layout barriers of a recorded frame name is the image
\* acquired in its iteration, the one it renders into and hands to present.
C9_BarrierOnAcquiredImage ==
    \A b \in Batches :
        /\ b.cmds.pre_barrier.image = image_data[b.image_index].image
        /\ b.cmds.post_barrier.image = image_data[b.image_index].image

\* the execution-set index words of record i of the indirect buffer
IndexWord(i, j) == indirect_map[i * WordsPerRecord + j]

\* C10: after init_gears() the indirect buffer holds three records whose
\* vertex-stage indices are 0,2,3 in shader-object mode and 0,1,2 in pipeline
\* mode; every index lies inside the buffer, is below the execution set's
\* capacity and names the slot that holds gear i's own vertex shader or
\* pipeline, the second index in shader-object mode the fragment shader's.
C10_IndirectIndices ==
    AfterInit =>
        /\ DOMAIN indirect_map = 0 .. (NUM_GEARS * WordsPerRecord - 1)
        /\ ies.capacity = IF use_shader_object THEN 4 ELSE 3
        /\ << IndexWord(0, 0), IndexWord(1, 0), IndexWord(2, 0) >>
              = IF use_shader_object THEN << 0, 2, 3 >> ELSE << 0, 1, 2 >>
        /\ \A i \in 0 .. (NUM_GEARS - 1) :
              /\ (i * WordsPerRecord + 2) * SIZEOF_UINT32 <= indirect_size
              /\ IndexWord(i, 0) \in DOMAIN ies.slots
              /\ IndexWord(i, 0) < ies.capacity
              /\ IndexWord(i, 1) < ies.capacity
              /\ ies.slots[IndexWord(i, 0)] =
                    Variant(IF use_shader_object THEN "vs" ELSE "pipeline", i)
              /\ use_shader_object => ies.slots[IndexWord(i, 1)] = Variant("fs", 0)

\* the loop runs in shader-object mode with the third gear's record naming
\* slot 3
C10_ShaderObjectRecords ==
    /\ pc = "wait"
    /\ use_shader_object
    /\ IndexWord(2, 0) = 3
    /\ ies.slots[3] = Variant("vs", 2)

\* C11: a sample count missing from the device's colour or depth
\* framebuffer sample-count mask ends the process with a diagnostic before
\* the surface, the swapchain or any attachment, view or slot object exists.
C11_UnsupportedSamplesFatal ==
    (sample_support.checked /\ ~(sample_support.color /\ sample_support.depth)) =>
        /\ pc = "fatal"
        /\ diagnostic = "Sample count not supported"
        /\ surface = VK_NULL_HANDLE
        /\ swapchain = VK_NULL_HANDLE
        /\ ncreate = 0
        /\ live = {}
        /\ \A s \in Slots : frame_data[s].fence = VK_NULL_HANDLE
        /\ depth = NoObjects /\ color_msaa = NoObjects

\* four samples were asked of a device whose depth limit lacks them
C11_DepthLacksSamples ==
    /\ sample_count = 4
    /\ sample_support.checked
    /\ sample_support.color /\ ~sample_support.depth
    /\ pc = "fatal"

\* C12: whenever vkQueuePresentKHR reports the swapchain suboptimal,
\* recreate_swapchain() is invoked before the next frame is recorded: no
\* frame is recorded with such a report outstanding.
C12_RecreateAfterSuboptimalPresent == present_suboptimal # "ignored"

\* C13: no acquire result that a stale or suboptimal surface causes ends the
\* process with a fatal exit or a failed assertion, and RECORD is entered
\* only with a successfully acquired image index inside the swapchain.
C13_AcquireRecovered ==
    /\ it.acq \in { "VK_SUBOPTIMAL_KHR", "VK_ERROR_OUT_OF_DATE_KHR" } =>
          pc \notin { "fatal", "assert_failed" }
    /\ pc = "record" =>
          /\ it.acq = "VK_SUCCESS"
          /\ image_index \in 0 .. (image_count - 1)
          /\ image_index < IMAGE_DATA_SIZE

\* the attachment configurations agree in all but the number of views
SameFormatsSamplesExtent(a, b) ==
    /\ a.color_format = b.color_format
    /\ a.depth_format = b.depth_format
    /\ a.samples = b.samples
    /\ a.resolve = b.resolve
    /\ a.extent = b.extent

\* C14 as stated: a recreate_swapchain() whose target size is that of the
\* swapchain it replaces (so the second of two calls in succession with the
\* same target) yields the same colour format, depth format, sample count,
\* presence of the resolve image, extent and number of image views.
C14_SameTargetSameConfiguration ==
    (ncreate >= 2 /\ attachments.extent = replaced.extent) =>
        attachments = replaced

\* C14, amended: such a recreate_swapchain() yields the same colour format,
\* depth format, sample count, presence of the resolve image and extent;
\* the number of image views is the image count the new swapchain reports,
\* each time at least min_image_count.
C14_SameTargetSameAttachments ==
    (ncreate >= 2 /\ attachments.extent = replaced.extent) =>
        /\ SameFormatsSamplesExtent(attachments, replaced)
        /\ attachments.color_format = image_format
        /\ attachments.depth_format = depth_format
        /\ attachments.views >= min_image_count
        /\ replaced.views >= min_image_count

\* recreate_swapchain() ran twice in succession with the target 800x600;
\* the second swapchain has a resolve image and fewer views than the first
C14_TwiceSameTarget ==
    /\ pc = "pump"
    /\ ncreate = 3
    /\ attachments.extent = << 800, 600 >>
    /\ replaced.extent = << 800, 600 >>
    /\ attachments.resolve /\ replaced.resolve
    /\ attachments.views < replaced.views

\* create_swapchain() has returned and free_swapchain_data() has not run since
AttachmentsLive == ncreate >= 1 /\ pc \notin { "rc_destroy", "rc_adopt", "rc_create" }

\* C15 as stated: after create_swapchain() with sample count 1 there is one
\* depth image, no resolve image, and the number of presentable images and
\* views equals min_image_count; a resolve image and view exist if and only
\* if the sample count is greater than 1.
C15_ImageCountIsMinimum ==
    AttachmentsLive =>
        /\ Cardinality(LiveOfKind("depth_image")) = 1
        /\ sample_count = 1 => LiveOfKind("color_msaa") = {}
        /\ image_count = min_image_count
        /\ Cardinality(LiveOfKind("view")) = min_image_count
        /\ (LiveOfKind("color_msaa") # {} /\ LiveOfKind("color_msaa_view") # {})
              <=> sample_count > 1

\* C15, amended: after create_swapchain() there is one depth image; the
\* number of presentable images and of their views is the image count the
\* swapchain reports, at least min_image_count; a resolve image and view
\* exist if and only if the sample count is greater than 1, so none with
\* sample count 1.
C15_AttachmentsAfterCreate ==
    AttachmentsLive =>
        /\ Cardinality(LiveOfKind("depth_image")) = 1
        /\ Cardinality(LiveOfKind("depth_view")) = 1
        /\ sample_count = 1 =>
              LiveOfKind("color_msaa") = {} /\ LiveOfKind("color_msaa_view") = {}
        /\ image_count >= min_image_count
        /\ attachments.views = image_count
        /\ Cardinality(LiveOfKind("view")) = image_count
        /\ LiveOfKind("view") = { image_data[i].view : i \in 0 .. (image_count - 1) }
        /\ (LiveOfKind("color_msaa") # {} /\ LiveOfKind("color_msaa_view") # {})
              <=> sample_count > 1
        /\ (LiveOfKind("color_msaa") # {} \/ LiveOfKind("color_msaa_view") # {})
              => sample_count > 1

\* the first swapchain, created with sample count 1, reports one image more
\* than min_image_count
C15_SingleSampledThreeImages ==
    /\ pc = "init_gears"
    /\ ncreate = 1
    /\ sample_count = 1
    /\ min_image_count = 2
    /\ image_count = 3
    /\ Cardinality(LiveOfKind("view")) = 3
    /\ LiveOfKind("depth_image") = { depth.image }

\* a step of the loop from update_window() on: the animation step and the
\* delivery of the pending key events
PumpStep == pc = "pump" /\ pc' # "pump"

\* the seconds the animation step of the coming iteration sees
Elapsed == IF tRot0 < 0 THEN 0 ELSE clock - tRot0

\* C16: the toggle key pressed once flips animate and pressed twice restores
\* it; an iteration that finds animate off leaves angle as it is; an
\* iteration that finds it on advances angle from the value it holds by 70
\* degrees per second (less 3600 past 3600), so after a pause the angle goes
\* on from the held value and is not reset.
C16_ToggleHoldsAngle ==
    [][ PumpStep =>
          /\ keyq = << KeyEvent(TRUE, "A") >> => animate' = ~animate
          /\ keyq = << KeyEvent(TRUE, "A"), KeyEvent(TRUE, "A") >> => animate' = animate
          /\ ~animate => angle' = angle
          /\ animate => angle' \in { angle + DegreesPerSecond * Elapsed,
                                     angle + DegreesPerSecond * Elapsed - AngleWrap }
          /\ (animate /\ Elapsed = 0 /\ angle <= AngleWrap) => angle' = angle
      ]_vars

\* the animation ran for one reading of the clock, was switched off and an
\* iteration a reading later left the angle where it was; the second press
\* of the toggle key is pending
C16_HeldWhileOff ==
    /\ pc = "pump"
    /\ ~animate
    /\ angle = DegreesPerSecond * TickSeconds
    /\ tRot0 = 2 * TickSeconds
    /\ keys = 2
    /\ keyq = << KeyEvent(TRUE, "A") >>

\* what a key event adds to view_rot[i]
ViewRotDelta(e, i) ==
    IF ~e.down THEN 0
    ELSE IF i = 0 THEN (IF e.key = "UP" THEN 5 ELSE IF e.key = "DOWN" THEN -5 ELSE 0)
    ELSE (IF e.key = "LEFT" THEN 5 ELSE IF e.key = "RIGHT" THEN -5 ELSE 0)

\* C19: a key event changes only its own target: Up and Down add and
\* subtract 5 on view_rot[0] alone, Left and Right on view_rot[1] alone, the
\* toggle key flips animate alone, releases and unknown keys change nothing,
\* and no key touches the angle; Up then Down, and Left then Right, restore
\* the view angles.
C19_KeysChangeOwnTarget ==
    [][ PumpStep =>
          /\ \A e \in KeyEvents :
                keyq = << e >> =>
                   /\ view_rot'[0] = view_rot[0] + ViewRotDelta(e, 0)
                   /\ view_rot'[1] = view_rot[1] + ViewRotDelta(e, 1)
                   /\ animate' = IF e.down /\ e.key = "A" THEN ~animate ELSE animate
          /\ (\A k \in DOMAIN keyq : ~keyq[k].down \/ keyq[k].key = "OTHER") =>
                view_rot' = view_rot /\ animate' = animate
          /\ keyq \in { << KeyEvent(TRUE, "UP"), KeyEvent(TRUE, "DOWN") >>,
                        << KeyEvent(TRUE, "LEFT"), KeyEvent(TRUE, "RIGHT") >> } =>
                view_rot' = view_rot /\ animate' = animate
          /\ (Elapsed = 0 /\ angle <= AngleWrap) => angle' = angle
      ]_vars

\* Up was pressed and delivered: the pitch moved by five, the yaw and the
\* animation flag did not; the press of Down that undoes it is pending
C19_UpThenDown ==
    /\ pc = "pump"
    /\ keys = 2
    /\ keyq = << KeyEvent(TRUE, "DOWN") >>
    /\ view_rot[0] = 25
    /\ view_rot[1] = 30
    /\ animate

\* the host is inside the frame loop
LoopPositions ==
    { "pump", "wait", "acquire", "record" } \cup
    { "rc_idle", "rc_free", "rc_destroy", "rc_adopt", "rc_create" }

\* the state the event callbacks write, and the exit they cause
EventState == << new_width, new_height, animate, view_rot, it.exit >>

C18_ExitEndsLoop ==
    /\ [](/\ it.exit # "none" => pc = "exited" /\ it.exit \in ExitSignals
          /\ pc = "exited" => it.exit \in ExitSignals
          /\ pc = "exited" => ~it.recorded /\ queue = << >> /\ presq = << >>
          /\ (AfterInit /\ pc \notin LoopPositions) =>
                pc \in { "exited", "assert_failed" })
    /\ [][ /\ pc # "exited"
           /\ pc' = "exited" => pc = "pump"
           /\ (pc \in LoopPositions /\ pc' \notin LoopPositions) =>
                \/ pc' = "exited" /\ it'.exit \in ExitSignals
                \/ pc' = "assert_failed"
         ]_vars

\* frames were rendered and presented, then the exit callback ended the loop
C18_ExitAfterFrames ==
    /\ pc = "exited"
    /\ it.exit = "wsi_exit"
    /\ begin_log.any /\ exec_log.any /\ present_log.any

\* ---------------------------------------------------------------------
\* Creation failures: the program run on a device that fails one creation
\* step of one call of create_swapchain()
\* ---------------------------------------------------------------------

\* the failures a device may produce: one step of the first or of the second
\* call of create_swapchain()
Failures ==
    [ gen  : 1 .. 2,
      step : UncheckedSteps \cup
             { "resolve_image", "resolve_memory", "resolve_view",
               "depth_image", "depth_memory", "depth_view" } ]

\* a multisampled run, so that every step of create_swapchain() is taken
InitFail ==
    /\ InitProgram
    /\ device = ReferenceDevice
    /\ desidered_present_mode = "VK_PRESENT_MODE_FIFO_KHR"
    /\ sample_count # 1
    /\ ~use_shader_object
    /\ fail_at \in Failures

\* the host passes Vulkan a handle no call created (vkWaitForFences,
\* vkAcquireNextImageKHR, vkBeginCommandBuffer, the rendering attachment):
\* undefined behaviour, kept as the one state "undefined" that stands for
\* whatever the driver does with it
UseFailedObject ==
    /\ UsesFailedObject
    /\ ProcessEnds("undefined")
    /\ UNCHANGED << sample_count, memory_type, find_calls,
                    ubo_ops,
                   
                    indirect_layout, preprocess, ies_info, desidered_present_mode, present_mode,
                    use_shader_object, width, height, new_width,
                    new_height, min_image_count, image_count, swapchain,
                    image_data, frame_data, depth, color_msaa, frame_index,
                    image_index, result, live, bad_destroy, ncreate, events,
                    ies, indirect_map, indirect_size, gears, it, rc_log,
                    extent, surface, sample_support, diagnostic,
                    present_suboptimal, device, image_format, depth_format,
                    attachments, replaced, animate, angle, view_rot, tRot0,
                    clock, keyq, keys, fail_at, create_failed, exec_log,
                    present_log, begin_log >>

NextFail ==
    \/ Next
    \/ UseFailedObject

SpecFail == InitFail /\ [][NextFail]_vars

\* C20: a failure while creating any required object ends the program with
\* an error message: whenever a creation step of create_swapchain() has
\* failed, the process has stopped with a diagnostic, and it never stands in
\* the frame loop with a failed creation behind it
C20_CreationFailureFatal ==
    create_failed # "none" => pc = "fatal" /\ diagnostic # ""

\* the tested steps do end the program with their message
C20_CheckedFailureFatal ==
    create_failed \in Range(CheckedSteps) =>
        pc = "fatal" /\ diagnostic = StepMessage(create_failed)

\* a fence's creation failed and the host has reached the frame loop
C20_LoopAfterFailedFence ==
    pc = "wait" /\ create_failed = "fence" /\ diagnostic = ""

\* ---------------------------------------------------------------------
\* The indirect-execution objects after init_gears()
\* ---------------------------------------------------------------------

\* C21: once init_gears() has returned, no step of the program (an iteration
\* of the frame loop, the delivery of a key or resize event, a step of
\* recreate_swapchain(), a step of the GPU or of the presentation engine)
\* changes the indirect records, their buffer's size, the preprocess buffer
\* binding, the execution set or the indirect commands layout.
C21_WrittenOnceAtInit ==
    [][ AfterInit =>
           UNCHANGED << indirect_map, indirect_size, preprocess, ies, ies_info,
                        indirect_layout, gears >> ]_vars

\* a frame of the recreated swapchain is on the queue, for the GPU to read
\* the records, and the host is in its next frame with the records, the
\* set, the layout and the binding as init_gears() left them
C21_ReadAfterRecreate ==
    /\ pc = "record"
    /\ ncreate = 2
    /\ queue # << >>
    /\ indirect_map = WrittenWords
    /\ ies = UpdateExecutionSet(CreateExecutionSet(use_shader_object),
                                ExecutionSetWrites(use_shader_object))
    /\ indirect_layout = IndirectCommandsLayout(use_shader_object)
    /\ preprocess = PreprocessBinding

\* the variants registered in the execution set
RegisteredVariants == { v \in Range(ies.slots) : v # EmptySlot }

\* C22: all variants registered in the execution set, and the execution
\* set's own creation info, declare the same resource-binding layout: the
\* same list of descriptor-set layouts and the same push-constant ranges.
C22_SharedBindingLayout ==
    ies.type # "none" =>
       /\ \A v, w \in RegisteredVariants : DeclaredLayout(v) = DeclaredLayout(w)
       /\ \A n \in DOMAIN ies_info.initial :
             BindingLayout(ies_info.pSetLayoutInfos[n], ies_info.pPushConstantRanges)
                = DeclaredLayout(ies_info.initial[n])

\* the variants themselves do declare one layout, and every slot of the set
\* is filled
C22_VariantsShareLayout ==
    ies.type # "none" =>
       /\ \A v, w \in RegisteredVariants : DeclaredLayout(v) = DeclaredLayout(w)
       /\ \A k \in DOMAIN ies.slots : ies.slots[k] # EmptySlot

\* the creation info of a set of shader objects lists no set layout for the
\* fragment shader, which was created with one
C22_FragmentShaderLayoutsDiffer ==
    /\ pc = "pump"
    /\ use_shader_object
    /\ ies_info.initial[2] = Variant("fs", 0)
    /\ ies_info.pSetLayoutInfos[2] = << >>
    /\ DeclaredLayout(Variant("fs", 0)).pSetLayouts = << "set_layout" >>

\* ---------------------------------------------------------------------
\* Teardown
\* ---------------------------------------------------------------------

\* C23: every object and allocation made at swapchain creation is freed
\* exactly once at teardown: when the program has terminated through the
\* exit signal, no object of the swapchain is live and no destroy call was
\* given an object that was not live.
C23_FreedExactlyOnce ==
    pc = "exited" => live = {} /\ ~bad_destroy

\* the objects of the recreated swapchain were never freed twice, and those
\* of a swapchain that recreate_swapchain() replaced are gone at exit
C23_ReplacedObjectsFreed ==
    /\ ~bad_destroy
    /\ pc = "exited" => \A h \in live : h.g = ncreate

\* the program has exited after a recreation with the second swapchain and
\* its fences still live
C23_ExitLeavesSwapchain ==
    /\ pc = "exited"
    /\ ncreate = 2
    /\ H("swapchain", 2, 0) \in live
    /\ H("fence", 2, 0) \in live
    /\ H("swapchain", 1, 0) \notin live

\* ---------------------------------------------------------------------
\* configure_swapchain(): present mode and depth format
\* ---------------------------------------------------------------------

\* configure_swapchain() has picked the present mode
PresentModePicked ==
    /\ pc \notin { "check_samples", "create_surface", "configure" }
    /\ surface # VK_NULL_HANDLE

\* C24: configure selects the requested present mode if the surface reports
\* it among its supported present modes and FIFO otherwise; the selected
\* mode is always the requested one or FIFO.
C24_RequestedModeOrFifo ==
    PresentModePicked =>
       /\ desidered_present_mode \in Range(device.present_modes)
             => present_mode = desidered_present_mode
       /\ desidered_present_mode \notin Range(device.present_modes)
             => present_mode = "VK_PRESENT_MODE_FIFO_KHR"
       /\ present_mode \in { desidered_present_mode, "VK_PRESENT_MODE_FIFO_KHR" }

\* mailbox was requested of a surface that reports FIFO and immediate only
C24_MailboxFallsBack ==
    /\ pc = "create"
    /\ desidered_present_mode = "VK_PRESENT_MODE_MAILBOX_KHR"
    /\ device.present_modes = << "VK_PRESENT_MODE_FIFO_KHR", "VK_PRESENT_MODE_IMMEDIATE_KHR" >>
    /\ present_mode = "VK_PRESENT_MODE_FIFO_KHR"

\* the device reports depth-stencil-attachment usage with optimal tiling
\* for the format
DepthAttachmentSupported(d, format) ==
    CASE format = "VK_FORMAT_D32_SFLOAT"          -> d.d32_depth_attachment
      [] format = "VK_FORMAT_X8_D24_UNORM_PACK32" -> d.x8_d24_depth_attachment
      [] OTHER                                    -> FALSE

\* C25: the depth format configure has chosen is one of the two candidates,
\* and one the device reports as usable as a depth-stencil attachment with
\* optimal tiling.
C25_DepthFormatSupported ==
    depth_format # "VK_FORMAT_UNDEFINED" =>
       /\ depth_format \in { "VK_FORMAT_D32_SFLOAT", "VK_FORMAT_X8_D24_UNORM_PACK32" }
       /\ DepthAttachmentSupported(device, depth_format)

\* a device without depth-attachment use of D32_SFLOAT got X8_D24
C25_FallsBackToX8D24 ==
    /\ pc = "create"
    /\ ~device.d32_depth_attachment
    /\ depth_format = "VK_FORMAT_X8_D24_UNORM_PACK32"

\* ---------------------------------------------------------------------
\* The size of the indirect buffer
\* ---------------------------------------------------------------------

\* C27: the size the indirect buffer, its memory and its mapping are created
\* with is at least the bytes the host stores into it (one record of the
\* layout's stride per gear) and at least the indirect size the execute
\* call is given.
C27_IndirectBufferLargeEnough ==
    indirect_size # 0 =>
       /\ indirect_size >= NUM_GEARS * indirect_layout.indirectStride
       /\ indirect_size >= draw_gears.execute.indirectAddressSize

\* the buffer is 60 bytes, the stores and the execute call cover 72
C27_TwelveBytesShort ==
    /\ pc = "pump"
    /\ indirect_size = 60
    /\ NUM_GEARS * indirect_layout.indirectStride = 72
    /\ draw_gears.execute.indirectAddressSize = 72
    /\ DOMAIN indirect_map = 0 .. 17

\* ---------------------------------------------------------------------
\* The ring of frame slots
\* ---------------------------------------------------------------------

\* the host leaves RECORD/SUBMIT/PRESENT: a frame was presented
PresentStep == pc = "record" /\ pc' # "record"

\* C28: the ring index is always in 0 .. MAX_CONCURRENT_FRAMES - 1; the step
\* that presents a frame advances it by one modulo the ring size, and no
\* other step (in particular the aborted iteration and recreate_swapchain())
\* changes it, so the slot of an iteration is the ring index and successive
\* presented frames use successive slots.
C28_RoundRobin ==
    /\ [](frame_index \in Slots)
    /\ [](pc \in { "wait", "acquire", "record" } => it.slot = frame_index)
    /\ [][ /\ PresentStep =>
                frame_index' = (frame_index + 1) % MAX_CONCURRENT_FRAMES
           /\ ~PresentStep => frame_index' = frame_index
           /\ (pc = "acquire" /\ pc' = "rc_idle") => frame_index' = frame_index
         ]_vars

\* an iteration on slot 1 was aborted and the swapchain recreated; the loop
\* is back at its top with the ring index still 1
C28_AbortKeepsSlot ==
    /\ pc = "pump"
    /\ it.recreates = 1
    /\ ~it.presented
    /\ ncreate = 2
    /\ frame_index = 1

\* ---------------------------------------------------------------------
\* The fence of the current slot
\* ---------------------------------------------------------------------

\* the submissions on the queue that will signal the fence
PendingOn(fence) == { k \in DOMAIN queue : queue[k].fence = fence }

\* C29: at every WAIT_SLOT the current slot's fence is signaled, or it is
\* unsignaled with exactly one submission pending that will signal it; after
\* an aborted iteration, which reset the fence and submitted nothing, the
\* slot holds a fence of the new swapchain, created signaled, and nothing is
\* pending on it.
C29_WaitNeverBlocksForever ==
    /\ pc = "wait" =>
          LET f == frame_data[frame_index].fence IN
          /\ f \in live
          /\ \/ fence_state[f.i] = "signaled" /\ PendingOn(f) = {}
             \/ fence_state[f.i] = "unsignaled" /\ Cardinality(PendingOn(f)) = 1
    /\ (pc = "pump" /\ it.recreates > 0) =>
          LET f == frame_data[frame_index].fence IN
          /\ f.g = ncreate
          /\ f \in live
          /\ fence_state[f.i] = "signaled"
          /\ queue = << >>

\* the loop is at WAIT_SLOT for a slot whose previous frame is still on the
\* queue: the fence is unsignaled and that one submission will signal it
C29_WaitOnPendingFrame ==
    /\ pc = "wait"
    /\ fence_state[frame_index] = "unsignaled"
    /\ Cardinality(PendingOn(frame_data[frame_index].fence)) = 1
    /\ ncreate = 2

\* ---------------------------------------------------------------------
\* The program on a surface that needs as many images as image_data holds
\* ---------------------------------------------------------------------

InitImages == Init /\ sample_count = 1 /\ ~use_shader_object

\* configure_swapchain() on a surface with minImageCount = 5
ConfigureLargeSurface == ConfigureOn({ IMAGE_DATA_SIZE })

NextImages ==
    \/ CheckSampleCount
    \/ CreateSurface
    \/ ConfigureLargeSurface
    \/ CreateSwapchain
    \/ InitGears
    \/ Pump
    \/ WaitSlot
    \/ Acquire
    \/ RecordSubmitPresent
    \/ RcWaitIdle
    \/ RcFree
    \/ RcDestroySwapchain
    \/ RcAdopt
    \/ RcCreate
    \/ \E s \in Slots : ImageReady(s)
    \/ GpuExecute
    \/ PresentExec

SpecImages == InitImages /\ [][NextImages]_vars

\* C26: the old layout the pre-render barrier declares is keyed by the
\* acquired image index: it is undefined exactly when the frame is the first
\* one recorded for that image index since the last create_swapchain() call,
\* and present-source otherwise; every recreation resets the bookkeeping of
\* every image index of the new swapchain.
C26_OldLayoutKeyedByImage ==
    /\ [][ PresentStep =>
              queue'[Len(queue')].cmds.pre_barrier.oldLayout =
                 IF image_index \in recorded_images THEN "PRESENT_SRC_KHR"
                 ELSE "UNDEFINED" ]_vars
    /\ [][ (pc = "rc_create" /\ pc' = AfterRecreate) =>
              /\ recorded_images' = {}
              /\ \A i \in 0 .. (image_count' - 1) :
                    i \in DOMAIN first' /\ ~first'[i] ]_vars

\* the same for the image indices first[] has an element for
C26_KeyedWithinFirst ==
    [][ (PresentStep /\ image_index \in DOMAIN first) =>
           /\ first[image_index] = (image_index \in recorded_images)
           /\ queue'[Len(queue')].cmds.pre_barrier.oldLayout =
                 IF image_index \in recorded_images THEN "PRESENT_SRC_KHR"
                 ELSE "UNDEFINED" ]_vars

\* the first frame recorded for image index 4 is on the queue with the old
\* layout present-source
C26_FifthImageFirstFrame ==
    /\ pc = "pump"
    /\ image_count = 5
    /\ queue # << >>
    /\ queue[Len(queue)].image_index = 4
    /\ queue[Len(queue)].cmds.pre_barrier.oldLayout = "PRESENT_SRC_KHR"
    /\ Cardinality({ k \in DOMAIN queue : queue[k].image_index = 4 }) = 1
    /\ ~present_log.any

\* ---------------------------------------------------------------------
\* Progress of the frame loop
\* ---------------------------------------------------------------------

\* the host thread takes its next step whenever it can: the steps of main()
\* that block (vkWaitForFences, vkDeviceWaitIdle) return once their condition
\* holds
HostRuns ==
    /\ WF_vars(CheckSampleCount) /\ WF_vars(CreateSurface) /\ WF_vars(Configure)
    /\ WF_vars(CreateSwapchain) /\ WF_vars(InitGears)
    /\ WF_vars(Pump) /\ WF_vars(WaitSlot) /\ WF_vars(Acquire)
    /\ WF_vars(RecordSubmitPresent)
    /\ WF_vars(RcWaitIdle) /\ WF_vars(RcFree) /\ WF_vars(RcDestroySwapchain)
    /\ WF_vars(RcAdopt) /\ WF_vars(RcCreate)

\* the GPU completes every submitted batch, the presentation engine performs
\* every queued present and releases every acquired image
DeviceRuns ==
    /\ WF_vars(GpuExecute)
    /\ WF_vars(PresentExec)
    /\ \A s \in Slots : WF_vars(ImageReady(s))

SpecLive == Init /\ [][Next]_vars /\ HostRuns /\ DeviceRuns

\* C30: a run that enters the frame loop and sees no exit signal presents
\* frames again and again; the environment delivers no more than MaxEvents
\* resizes and suboptimal results.
C30_Progress ==
    <>(pc = "pump") =>
        ([]<><<RecordSubmitPresent>>_vars \/ <>(pc = "exited"))

\* the loop neither waits for ever at WAIT_SLOT nor recreates for ever: a
\* run that enters the loop presents again and again unless the process has
\* ended, by the exit signal or by a failed assert
C30_ProgressUnlessEnded ==
    <>(pc = "pump") =>
        ([]<><<RecordSubmitPresent>>_vars \/ <>(pc \in { "exited", "assert_failed" }))

\* ---------------------------------------------------------------------
\* The acquired image index and the two arrays it indexes
\* ---------------------------------------------------------------------

\* C31: every image index the loop accepts from acquire (the host is at
\* RECORD) is an index of first[] as well as of image_data[]: no accepted
\* image index reads or writes first[] out of bounds.
C31_AcceptedIndexWithinFirst ==
    pc = "record" =>
        /\ image_index \in DOMAIN image_data
        /\ image_index \in DOMAIN first

\* the assert before RECORD does keep the accepted index within image_data[]
C31_AcceptedIndexWithinImageData ==
    pc = "record" => image_index \in DOMAIN image_data

\* the loop has accepted image index 4 of a five-image swapchain, for which
\* first[] has no element
C31_FifthImageAccepted ==
    /\ pc = "record"
    /\ image_count = IMAGE_DATA_SIZE
    /\ image_index = FIRST_SIZE
    /\ image_index \notin DOMAIN first

\* ---------------------------------------------------------------------
\* The swapchain manager on a swapchain that reports more images than asked
\* ---------------------------------------------------------------------

\* the image counts vkGetSwapchainImagesKHR may report: the count asked for
\* or more, here up to one more than image_data has elements
GenerousImageCounts == min_image_count .. (IMAGE_DATA_SIZE + 1)

CreateSwapchainGenerous == CreateSwapchainOn(GenerousImageCounts)
RcCreateGenerous == RcCreateOn(GenerousImageCounts)

NextGenerous ==
    \/ CheckSampleCount
    \/ CreateSurface
    \/ Configure
    \/ CreateSwapchainGenerous
    \/ InitGears
    \/ CallRecreate
    \/ RcWaitIdle
    \/ RcFree
    \/ RcDestroySwapchain
    \/ RcAdopt
    \/ RcCreateGenerous

SpecGenerous == Init /\ [][NextGenerous]_vars

\* the elements the loop of create_swapchain() stores an image and a view
\* into: for (i = 0; i < image_count; i++) image_data[i] = ...
StoredImageIndices == 0 .. (image_count - 1)

\* C32: the number of images the swapchain reports never exceeds the 5
\* elements of image_data: configure_swapchain() goes on to the creation only
\* with a minimum image count of at most 5, and create_swapchain() stores no
\* image or view beyond the last element of image_data, whatever image count
\* the swapchain reports.
C32_ImageCountWithinArray ==
    /\ [](image_count <= IMAGE_DATA_SIZE)
    /\ [](\A i \in StoredImageIndices : i \in DOMAIN image_data)
    /\ [][ (pc = "configure" /\ pc' = "create") =>
              min_image_count' <= IMAGE_DATA_SIZE ]_vars

\* configure_swapchain() alone: it goes on only with a minimum image count of
\* at most 5 and ends the process otherwise
C32_ConfigureRejectsLargeMinimum ==
    [][ pc = "configure" =>
           \/ pc' = "create" /\ min_image_count' <= IMAGE_DATA_SIZE
           \/ /\ pc' = "fatal"
              /\ diagnostic' = "surface_caps.minImageCount is too large" ]_vars

\* a swapchain asked for two images has reported six, and main() goes on
C32_SixImagesReported ==
    /\ pc = "init_gears"
    /\ min_image_count = 2
    /\ image_count = IMAGE_DATA_SIZE + 1

\* ---------------------------------------------------------------------
\* The uniform buffer on the GPU: the transfer write and the vertex-stage
\* read of every submitted frame, as the pipeline stages run them
\* ---------------------------------------------------------------------

\* main() starts single-sampled in pipeline mode
InitUniform == Init /\ sample_count = 1 /\ ~use_shader_object

\* the slot whose command buffer the k-th batch of the queue is
BatchSlot(k) == queue[k].cmd_buffer.i

\* a barrier of the k-th batch makes the later stage wait for the earlier one
Orders(barrier, earlier, later) ==
    barrier.src_flags = earlier /\ barrier.dst_flags = later

\* the write of the k-th batch may begin: commands of one queue begin in any
\* order except where a barrier stands between them, and the barrier before
\* the update holds the transfer stage back until the vertex stage of every
\* command submitted before it is done
TransferMayBegin(k) ==
    Orders(queue[k].cmds.uniform_update[1], "VERTEX_SHADER", "TRANSFER") =>
        \A j \in 1 .. (k - 1) : ubo_ops[BatchSlot(j)].r = "done"

\* the read of the k-th batch may begin: the barrier after the update holds
\* the vertex stage back until the transfer writes submitted before it are
\* done and available to uniform reads
VertexReadMayBegin(k) ==
    LET b == queue[k].cmds.uniform_update[3] IN
    (/\ Orders(b, "TRANSFER", "VERTEX_SHADER")
     /\ "TRANSFER_WRITE" \in b.src_access
     /\ "UNIFORM_READ" \in b.dst_access) =>
        \A j \in 1 .. k : ubo_ops[BatchSlot(j)].w = "done"

\* the step of one operation of one submitted batch
UboStep(op, from, to, ready) ==
    /\ \E k \in ready :
          /\ ubo_ops[BatchSlot(k)][op] = from
          /\ ubo_ops' = [ ubo_ops EXCEPT ![BatchSlot(k)][op] = to ]
    /\ UNCHANGED << pc, sample_count, memory_type, find_calls,
                    use_shader_object, width, height,
                    new_width, new_height, min_image_count, image_count,
                    swapchain, image_data, frame_data, depth, color_msaa,
                    frame_index, image_index, result, first, live,
                    bad_destroy, fence_state, sem_state, present_semaphore,
                    img_state, queue, presq, ncreate, events, ies,
                    indirect_map, indirect_size, gears, it, rc_log, extent,
                    surface, sample_support, diagnostic,
                    present_suboptimal, device, image_format, depth_format,
                    attachments, replaced, animate, angle, view_rot, tRot0,
                    clock, keyq, keys, fail_at, create_failed,
                    indirect_layout, preprocess, ies_info,
                    desidered_present_mode, present_mode, recorded_images,
                    exec_log, present_log, begin_log >>

\* vkCmdUpdateBuffer begins and ends in the transfer stage
TransferBegin ==
    UboStep("w", "todo", "run", { k \in DOMAIN queue : TransferMayBegin(k) })

TransferEnd == UboStep("w", "run", "done", DOMAIN queue)

\* the draws of the render pass begin and end their read of the uniform
\* buffer in the vertex stage
VertexReadBegin ==
    UboStep("r", "todo", "run", { k \in DOMAIN queue : VertexReadMayBegin(k) })

VertexReadEnd == UboStep("r", "run", "done", DOMAIN queue)

\* the oldest batch completes once its commands have
GpuRetire ==
    /\ queue # << >>
    /\ ubo_ops[BatchSlot(1)] = [ w |-> "done", r |-> "done" ]
    /\ GpuExecute

NextUniform ==
    \/ CheckSampleCount
    \/ CreateSurface
    \/ Configure
    \/ CreateSwapchain
    \/ InitGears
    \/ Pump
    \/ WaitSlot
    \/ Acquire
    \/ RecordSubmitPresent
    \/ RcWaitIdle
    \/ RcFree
    \/ RcDestroySwapchain
    \/ RcAdopt
    \/ RcCreate
    \/ \E s \in Slots : ImageReady(s)
    \/ TransferBegin
    \/ TransferEnd
    \/ VertexReadBegin
    \/ VertexReadEnd
    \/ GpuRetire
    \/ PresentExec

SpecUniform == InitUniform /\ [][NextUniform]_vars

\* the position of the first command of that name in a recorded stream
Position(stream, name) ==
    CHOOSE p \in DOMAIN stream :
        stream[p] = name /\ \A q \in 1 .. (p - 1) : stream[q] # name

\* C33: with up to two frames in flight, every submitted frame records the
\* transfer write of the uniform buffer between a vertex-stage-to-transfer
\* barrier and a transfer-to-vertex-stage barrier and before the render
\* pass, and no vertex-stage read of the uniform buffer by a frame in flight
\* runs while the transfer write of that frame or of another one runs.
C33_UniformUpdateOrdered ==
    /\ \A k \in DOMAIN queue :
          LET c == queue[k].cmds IN
          /\ Orders(c.uniform_update[1], "VERTEX_SHADER", "TRANSFER")
          /\ c.uniform_update[2].cmd = "vkCmdUpdateBuffer"
          /\ Orders(c.uniform_update[3], "TRANSFER", "VERTEX_SHADER")
          /\ SubSeq(c.stream, 1, 3) =
                << "buffer_barrier", "vkCmdUpdateBuffer", "buffer_barrier" >>
          /\ Position(c.stream, "vkCmdBeginRendering") > 3
    /\ \A j, k \in DOMAIN queue :
          ~(ubo_ops[BatchSlot(j)].w = "run" /\ ubo_ops[BatchSlot(k)].r = "run")

\* two frames are in flight; the older one reads the uniform buffer in the
\* vertex stage while the write of the newer one has not begun
C33_ReadWhileNextFrameQueued ==
    /\ Len(queue) = 2
    /\ ubo_ops[BatchSlot(1)] = [ w |-> "done", r |-> "run" ]
    /\ ubo_ops[BatchSlot(2)] = NotStarted

\* ---------------------------------------------------------------------
\* The execute call of every recorded frame
\* ---------------------------------------------------------------------

\* the positions of the commands of that name in a recorded stream
Positions(stream, name) == { p \in DOMAIN stream : stream[p] = name }

\* C34: every recorded frame holds exactly one execute-generated-commands
\* call, after begin-rendering and before end-rendering; its maximum
\* sequence count is the number of indirect records (3) and the sequence
\* count the preprocess buffer was sized for, and its preprocess size is the
\* size queried at init.
C34_OneExecutePerFrame ==
    \A k \in DOMAIN queue :
       LET c == queue[k].cmds
           e == Positions(c.stream, "CmdExecuteGeneratedCommandsEXT")
       IN
       /\ Cardinality(e) = 1
       /\ \A p \in e :
             /\ \E b \in Positions(c.stream, "vkCmdBeginRendering") : b < p
             /\ \A b \in Positions(c.stream, "vkCmdBeginRendering") : b < p
             /\ \E d \in Positions(c.stream, "vkCmdEndRendering") : p < d
             /\ \A d \in Positions(c.stream, "vkCmdEndRendering") : p < d
       /\ c.draw.execute.maxSequenceCount =
             Cardinality(DOMAIN indirect_map) \div WordsPerRecord
       /\ c.draw.execute.maxSequenceCount = Cardinality(DOMAIN gears)
       /\ c.draw.execute.maxSequenceCount = NUM_GEARS
       /\ c.draw.execute.maxSequenceCount = preprocess.maxSequenceCount
       /\ c.draw.execute.preprocessSize = preprocess.size
       /\ c.draw.execute.preprocessSize =
             GeneratedCommandsMemorySize(preprocess.maxSequenceCount)
       /\ c.draw.execute.preprocessAddress = preprocess.buffer

\* two recorded frames are in flight after a recreation
C34_FramesAfterRecreate ==
    /\ Len(queue) = 2
    /\ ncreate = 2
    /\ preprocess = PreprocessBinding
    /\ Cardinality(DOMAIN gears) = NUM_GEARS

\* ---------------------------------------------------------------------
\* The slots of the execution set
\* ---------------------------------------------------------------------

\* the slots the creation call fills: one per initial variant, from 0
InitialSlots == 0 .. (Len(ies_info.initial) - 1)

\* C35: in both binding modes the capacity of the execution set is the
\* number of initial variants plus the number the update registers (3 = 1 + 2
\* with pipelines, 4 = 2 + 2 with shader objects); the update's slot indices
\* are distinct, below the capacity and none of the initial slots, so every
\* slot 0 .. capacity - 1 holds exactly one variant before the first execute.
C35_EverySlotFilled ==
    ies.type # "none" =>
        LET writes == ExecutionSetWrites(use_shader_object) IN
        /\ ies.capacity = Len(ies_info.initial) + Len(writes)
        /\ ies.capacity = IF use_shader_object THEN 2 + 2 ELSE 1 + 2
        /\ Len(ies_info.initial) = IF use_shader_object THEN 2 ELSE 1
        /\ \A a, b \in DOMAIN writes : a # b => writes[a].index # writes[b].index
        /\ \A a \in DOMAIN writes :
              /\ writes[a].index < ies.capacity
              /\ writes[a].index \notin InitialSlots
        /\ DOMAIN ies.slots = 0 .. (ies.capacity - 1)
        /\ \A k \in DOMAIN ies.slots : ies.slots[k] # EmptySlot
        /\ \A k \in InitialSlots : ies.slots[k] = ies_info.initial[k + 1]
        /\ \A a \in DOMAIN writes : ies.slots[writes[a].index] = writes[a].v
        /\ \A j, k \in DOMAIN ies.slots : j # k => ies.slots[j] # ies.slots[k]

\* a frame has executed against the four-slot set of the shader-object mode
C35_ShaderObjectSetExecuted ==
    /\ use_shader_object
    /\ ies.capacity = 4
    /\ exec_log.any

\* ---------------------------------------------------------------------
\* The memory types of the attachments: the start-up of main() on devices
\* with different memory types
\* ---------------------------------------------------------------------

\* the numbers of memory types a device may report, up to VK_MAX_MEMORY_TYPES
MemoryTypeCounts == { 1, 2, 3, VK_MAX_MEMORY_TYPES }

\* the memory types whose property flags differ between the devices, and the
\* flags they may have; the other types are host-visible only
VariedTypes(c) == { 0, 1, c - 1 } \cap (0 .. (c - 1))
AttachmentFlagSets == SUBSET { "DEVICE_LOCAL", "LAZILY_ALLOCATED" }

MemoryTypeLists(c) ==
    { [ i \in 1 .. c |-> IF (i - 1) \in VariedTypes(c) THEN f[i - 1]
                         ELSE { "HOST_VISIBLE" } ] :
      f \in [ VariedTypes(c) -> AttachmentFlagSets ] }

\* the devices: the memory types, and the memory requirements of the two
\* attachments; memoryTypeBits has a bit set for memory types of the device
\* only, and for at least one
MemoryDevices ==
    UNION { UNION { { [ ReferenceDevice EXCEPT
                          !.mem_props = MemoryProperties(types),
                          !.depth_reqs = MemoryRequirements(bits),
                          !.msaa_reqs = MemoryRequirements(msaa_bits) ] :
                      bits \in (SUBSET VariedTypes(c)) \ { {} },
                      msaa_bits \in { VariedTypes(c) } } :
                    types \in MemoryTypeLists(c) } :
            c \in MemoryTypeCounts }

InitMemory ==
    /\ InitProgram
    /\ ~use_shader_object
    /\ device \in MemoryDevices
    /\ desidered_present_mode = "VK_PRESENT_MODE_FIFO_KHR"
    /\ fail_at = NoFailure

NextMemory ==
    \/ CheckSampleCount
    \/ CreateSurface
    \/ Configure
    \/ CreateSwapchain

SpecMemory == InitMemory /\ [][NextMemory]_vars

\* the memory types of the device that satisfy the requirements and have all
\* the flags
MatchingTypes(reqs, flags) ==
    { i \in 0 .. (device.mem_props.memoryTypeCount - 1) :
        /\ i \in reqs.memoryTypeBits
        /\ flags \subseteq device.mem_props.memoryTypes[i] }

\* a call returned what find_memory_type() is to return and inspected
\* memory types of the device only
CallCorrect(c) ==
    LET matching == MatchingTypes(c.reqs, c.flags) IN
    /\ c.ret = IF matching = {} THEN -1
               ELSE CHOOSE i \in matching : \A j \in matching : i <= j
    /\ c.ret < device.mem_props.memoryTypeCount
    /\ \A i \in c.inspected : i < device.mem_props.memoryTypeCount

\* C36: find_memory_type(reqs, flags) returns the smallest index i below the
\* device's memory type count such that bit i of the requirement mask is set
\* and memory type i has all the requested flags, and -1 exactly when there
\* is no such index; it neither returns nor inspects an index at or beyond
\* the memory type count.
C36_FindMemoryType ==
    \A c \in find_calls : CallCorrect(c)

\* the same on the devices with fewer than VK_MAX_MEMORY_TYPES memory types
C36_FindMemoryTypeBelowMaximum ==
    device.mem_props.memoryTypeCount < VK_MAX_MEMORY_TYPES =>
        \A c \in find_calls : CallCorrect(c)

\* on a device with 32 memory types a call has inspected index 32
C36_InspectedBehindTheTypes ==
    /\ device.mem_props.memoryTypeCount = VK_MAX_MEMORY_TYPES
    /\ \E c \in find_calls : VK_MAX_MEMORY_TYPES \in c.inspected

\* the attachments create_swapchain() selects memory for, in its order, with
\* their memory requirements
SelectedAttachments ==
    (IF Multisampled THEN << "color_msaa" >> ELSE << >>) \o << "depth" >>
AttachmentReqs(a) == IF a = "color_msaa" THEN device.msaa_reqs ELSE device.depth_reqs
AttachmentMemory(a) ==
    IF a = "color_msaa" THEN MsaaObjects(ncreate).memory
    ELSE DepthObjects(ncreate).memory

\* the device has neither a lazily-allocated nor a device-local memory type
\* for the attachment
NoMemoryFor(a) ==
    /\ MatchingTypes(AttachmentReqs(a), { "LAZILY_ALLOCATED" }) = {}
    /\ MatchingTypes(AttachmentReqs(a), { "DEVICE_LOCAL" }) = {}

\* the memory type selected for the attachment is a lazily-allocated one if
\* the device has one for it, and a device-local one otherwise
TwoTier(a) ==
    LET lazy == MatchingTypes(AttachmentReqs(a), { "LAZILY_ALLOCATED" })
        local == MatchingTypes(AttachmentReqs(a), { "DEVICE_LOCAL" })
    IN  memory_type[a] \in (IF lazy # {} THEN lazy ELSE local)

\* the two-tier selection as create_swapchain() has left it
TwoTierFallback ==
    ncreate >= 1 =>
        LET unserved == { k \in DOMAIN SelectedAttachments :
                            NoMemoryFor(SelectedAttachments[k]) }
        IN  IF unserved = {}
            THEN /\ pc # "fatal"
                 /\ \A k \in DOMAIN SelectedAttachments : TwoTier(SelectedAttachments[k])
            ELSE LET k == CHOOSE k \in unserved : \A j \in unserved : k <= j IN
                 /\ pc = "fatal"
                 /\ diagnostic = "find_memory_type failed"
                 /\ AttachmentMemory(SelectedAttachments[k]) \notin live
                 /\ \A j \in 1 .. (k - 1) : TwoTier(SelectedAttachments[j])

\* C37: the memory of the resolve image and of the depth image is selected
\* in two tiers: a lazily-allocated memory type whenever one satisfies the
\* image's requirement mask, otherwise a device-local one; if there is
\* neither, the program ends with a fatal error before it allocates memory
\* for that image.
C37_TwoTierFallback == TwoTierFallback

\* the same on the devices with fewer than VK_MAX_MEMORY_TYPES memory types
C37_TwoTierFallbackBelowMaximum ==
    device.mem_props.memoryTypeCount < VK_MAX_MEMORY_TYPES => TwoTierFallback

\* the depth image of a device with 32 memory types, none of them lazily
\* allocated for it, got memory type 32
C37_TypeBehindTheTypes ==
    /\ ncreate = 1
    /\ pc = "init_gears"
    /\ device.mem_props.memoryTypeCount = VK_MAX_MEMORY_TYPES
    /\ MatchingTypes(device.depth_reqs, { "LAZILY_ALLOCATED" }) = {}
    /\ memory_type.depth = VK_MAX_MEMORY_TYPES

\* ---------------------------------------------------------------------
\* The draw parameters of the indirect records
\* ---------------------------------------------------------------------

\* unsigned num_verts = gears[2].first_vertex + gears[2].vertex_count: the
\* number of vertices the vertex buffer is created for
num_verts == gears[NUM_GEARS - 1].first_vertex + gears[NUM_GEARS - 1].vertex_count

\* the VkDrawIndirectCommand of record i as the buffer holds it: vertexCount,
\* instanceCount, firstVertex, firstInstance
DrawCommand(i) ==
    [ j \in 1 .. (SIZEOF_DRAW_CMD \div SIZEOF_UINT32) |->
        indirect_map[i * WordsPerRecord + 1 + j] ]

\* the bytes of record i lie inside the indirect buffer
RecordInsideBuffer(i) == (i + 1) * SIZEOF_INDIRECT_DATA <= indirect_size

RECURSIVE VerticesBefore(_)
VerticesBefore(i) ==
    IF i = 0 THEN 0 ELSE VerticesBefore(i - 1) + gears[i - 1].vertex_count

\* the draw commands as init_gears() stored them, and the vertex ranges
ParametersAsStored ==
    /\ \A i \in 0 .. (NUM_GEARS - 1) :
          /\ DrawCommand(i) = << gears[i].vertex_count, 1, gears[i].first_vertex, 0 >>
          /\ gears[i].vertex_count = create_gear(GearTeeth[i + 1])
          /\ gears[i].first_vertex = VerticesBefore(i)
          /\ gears[i].first_vertex + gears[i].vertex_count <= num_verts
    /\ num_verts <= MAX_VERTS

\* C38: record i of the indirect buffer carries the draw parameters of gear
\* descriptor i (vertex count and first vertex as in the descriptor,
\* instance count 1, first instance 0); the vertex ranges of the three gears
\* are contiguous and disjoint, first_vertex of gear i being the sum of the
\* vertex counts of the gears before it, and the last range ends within the
\* vertex buffer.
C38_RecordsCarryGearParameters ==
    AfterInit =>
        /\ \A i \in 0 .. (NUM_GEARS - 1) : RecordInsideBuffer(i)
        /\ ParametersAsStored

\* what init_gears() stored, wherever the stores went
C38_ParametersAsStored ==
    AfterInit => ParametersAsStored

\* the loop runs with the third record's draw command ending 12 bytes behind
\* the indirect buffer
C38_ThirdRecordBehindBuffer ==
    /\ pc = "wait"
    /\ ~RecordInsideBuffer(NUM_GEARS - 1)
    /\ DrawCommand(NUM_GEARS - 1)[3] = gears[NUM_GEARS - 1].first_vertex
    /\ NUM_GEARS * SIZEOF_INDIRECT_DATA - indirect_size = 12

====
